---- MODULE Spec2Model ----
(***************************************************************************)
(* Model of scripts/generate_apk_metrics_dashboard.py: the unit value      *)
(* parsers, the slim-report parser, the cumulative timeline builder and    *)
(* the batch run of main(); of generate_slim_report and main() of          *)
(* scripts/generate_apk_trend_report.py; and of calculate_sessions of      *)
(* docs/calculate_dev_time.py.                                             *)
(*                                                                         *)
(* Text is a sequence of one-character strings.  A float is an exact       *)
(* rational [n, d] in lowest terms.  None is the empty tuple where a       *)
(* function returns Optional[...], and NoCode where a version code is       *)
(* missing.  The content of a report file is the sequence of its lines,    *)
(* each line its key and its cells; the regular expressions of the parser  *)
(* are modelled by what they match in such a sequence.                     *)
(***************************************************************************)
EXTENDS Integers, Sequences, FiniteSets, TLC

\* ------------------------------------------------------------------ bounds
MaxRelease == 3
MaxReports == 3
MaxAnyReports == 2
MaxFiles == 2

Releases == 0..MaxRelease

\* ------------------------------------------------------------- text helpers
Digits == {"0", "1", "2", "3", "4", "5", "6", "7", "8", "9"}

DigitVal(c) ==
  CASE c = "0" -> 0 [] c = "1" -> 1 [] c = "2" -> 2 [] c = "3" -> 3
    [] c = "4" -> 4 [] c = "5" -> 5 [] c = "6" -> 6 [] c = "7" -> 7
    [] c = "8" -> 8 [] c = "9" -> 9

IsSpace(c) == c = " "

RECURSIVE LStrip(_)
LStrip(s) == IF s # <<>> /\ IsSpace(Head(s)) THEN LStrip(Tail(s)) ELSE s

RECURSIVE RStrip(_)
RStrip(s) ==
  IF s # <<>> /\ IsSpace(s[Len(s)]) THEN RStrip(SubSeq(s, 1, Len(s) - 1)) ELSE s

\* str.strip()
Strip(s) == RStrip(LStrip(s))

\* last index of the maximal run of characters of class C that starts at i
RECURSIVE RunEnd(_, _, _)
RunEnd(s, i, C) ==
  IF i + 1 <= Len(s) /\ s[i + 1] \in C THEN RunEnd(s, i + 1, C) ELSE i

\* first index >= k that holds no whitespace (Len(s) + 1 when there is none)
RECURSIVE SkipSpace(_, _)
SkipSpace(s, k) ==
  IF k <= Len(s) /\ IsSpace(s[k]) THEN SkipSpace(s, k + 1) ELSE k

StartsAt(s, k, w) ==
  /\ k + Len(w) - 1 <= Len(s)
  /\ SubSeq(s, k, k + Len(w) - 1) = w

RECURSIVE Gcd(_, _)
Gcd(a, b) == IF b = 0 THEN a ELSE Gcd(b, a % b)

\* the float n / d
Float(n, d) == LET g == Gcd(n, d) IN [n |-> n \div g, d |-> d \div g]

RECURSIVE Pow10(_)
Pow10(k) == IF k = 0 THEN 1 ELSE 10 * Pow10(k - 1)

\* the digits of s read as one integer, other characters skipped
RECURSIVE DigitsValue(_, _)
DigitsValue(s, acc) ==
  IF s = <<>> THEN acc
  ELSE IF Head(s) \in Digits
       THEN DigitsValue(Tail(s), 10 * acc + DigitVal(Head(s)))
       ELSE DigitsValue(Tail(s), acc)

CountOf(s, c) == Cardinality({i \in 1..Len(s) : s[i] = c})

\* ---------------------------------------------------------- parse_size_value
\* the alternation (MiB|KiB|B) tried at index k; "" when none matches
UnitAt(s, k) ==
  IF StartsAt(s, k, <<"M", "i", "B">>) THEN "MiB"
  ELSE IF StartsAt(s, k, <<"K", "i", "B">>) THEN "KiB"
  ELSE IF StartsAt(s, k, <<"B">>) THEN "B"
  ELSE ""

\* re.search(r'([\d.]+)\s*(MiB|KiB|B)', s): the leftmost match from index p on,
\* as <<[num, unit]>>, or <<>> when the pattern matches nowhere
RECURSIVE SizeSearch(_, _)
SizeSearch(s, p) ==
  IF p > Len(s) THEN <<>>
  ELSE IF s[p] \in Digits \cup {"."}
       THEN LET e == RunEnd(s, p, Digits \cup {"."})
                u == UnitAt(s, SkipSpace(s, e + 1))
            IN IF u # "" THEN <<[num |-> SubSeq(s, p, e), unit |-> u]>>
               ELSE SizeSearch(s, p + 1)
       ELSE SizeSearch(s, p + 1)

\* float(text) accepts digits with at most one point and at least one digit
FloatAccepts(num) ==
  /\ CountOf(num, ".") <= 1
  /\ \E i \in 1..Len(num) : num[i] \in Digits

\* number of digits after the decimal point
FracDigits(num) ==
  IF CountOf(num, ".") = 0 THEN 0
  ELSE Len(num) - (CHOOSE i \in 1..Len(num) : num[i] = ".")

\* decimal factors in place of the binary ones
UnitDivisor_decimal(unit) ==
  CASE unit = "MiB" -> 1
    [] unit = "KiB" -> 1000
    [] unit = "B" -> 1000 * 1000

UnitDivisor(unit) ==
  CASE unit = "MiB" -> 1
    [] unit = "KiB" -> 1024
    [] unit = "B" -> 1024 * 1024

\* kind "None": returns None; "float": returns val; "ValueError": float() raises
parse_size_value(size_str) ==
  IF size_str = <<>> THEN [kind |-> "None"]
  ELSE LET m == SizeSearch(Strip(size_str), 1)
       IN IF m = <<>> THEN [kind |-> "None"]
          ELSE IF ~FloatAccepts(m[1].num) THEN [kind |-> "ValueError"]
          ELSE [kind |-> "float",
                val |-> Float(DigitsValue(m[1].num, 0),
                              Pow10(FracDigits(m[1].num)) * UnitDivisor(m[1].unit))]

\* -------------------------------------------------------- parse_number_value
\* the digits stop at the first comma
GroupedDigitsEnd_no_commas(s, i) == RunEnd(s, i, Digits)

\* end of the match of \d+(?:,\d+)* whose first digit is at index i
RECURSIVE GroupedDigitsEnd(_, _)
GroupedDigitsEnd(s, i) ==
  LET e == RunEnd(s, i, Digits)
  IN IF e + 2 <= Len(s) /\ s[e + 1] = "," /\ s[e + 2] \in Digits
     THEN GroupedDigitsEnd(s, e + 2)
     ELSE e

\* re.search(r'([+-]?\d+(?:,\d+)*)', s): the leftmost match from index p on
RECURSIVE NumberSearch(_, _)
NumberSearch(s, p) ==
  IF p > Len(s) THEN <<>>
  ELSE IF s[p] \in {"+", "-"} /\ p + 1 <= Len(s) /\ s[p + 1] \in Digits
       THEN <<SubSeq(s, p, GroupedDigitsEnd(s, p + 1))>>
  ELSE IF s[p] \in Digits
       THEN <<SubSeq(s, p, GroupedDigitsEnd(s, p))>>
  ELSE NumberSearch(s, p + 1)

\* <<>> is None, <<v>> is the integer v
parse_number_value(num_str) ==
  IF num_str = <<>> THEN <<>>
  ELSE LET m == NumberSearch(Strip(num_str), 1)
       IN IF m = <<>> THEN <<>>
          ELSE IF Head(m[1]) = "-" THEN <<0 - DigitsValue(m[1], 0)>>
          ELSE <<DigitsValue(m[1], 0)>>

\* ------------------------------------------------------------ report inputs
NoCode == -1

DigitChar(n) ==
  CASE n = 0 -> "0" [] n = 1 -> "1" [] n = 2 -> "2" [] n = 3 -> "3"
    [] n = 4 -> "4" [] n = 5 -> "5" [] n = 6 -> "6" [] n = 7 -> "7"
    [] n = 8 -> "8" [] n = 9 -> "9"

RECURSIVE ToDigits(_)
ToDigits(n) ==
  IF n < 10 THEN <<DigitChar(n)>>
  ELSE ToDigits(n \div 10) \o <<DigitChar(n % 10)>>

\* what the comparison tool prints for release v: its dotted version label,
\* its version code and its size and count cells (padded as in the tables)
Label(v) == <<"1", ".">> \o ToDigits(v)
VersionCode(v) == v + 1
CodeCell(v) == <<" ">> \o ToDigits(VersionCode(v)) \o <<" ", " ">>
SizeCell(v) == <<" ">> \o ToDigits(512 * (v + 1)) \o <<" ", "K", "i", "B">>
USizeCell(v) == <<" ">> \o ToDigits(v + 2) \o <<".", "5", " ", "M", "i", "B">>
DexSizeCell(v) == <<" ">> \o ToDigits(100 + v) \o <<" ", "B">>
MethodsCell(v) == <<"2", "1", ",", "4", "8">> \o ToDigits(v)
EntriesCell(v) == <<" ">> \o ToDigits(300 + v) \o <<" ">>
DiffCell == <<"+", "7", " ", "(", "+", "1", "2", " ", "-", "5", ")">>
SizeDiffCell == <<"+", "9", "1", "2", " ", "B">>
GarbageCell == <<" ", "n", "/", "a", " ">>
MalformedCell == <<"1", ".", "2", ".", "3", " ", "M", "i", "B">>
ZeroSizeCell == <<" ", " ", "0", " ", "B">>
ZeroCountCell == <<" ", "0", " ">>

\* the words of the header rows
Word_compressed == <<"c", "o", "m", "p", "r", "e", "s", "s", "e", "d">>
Word_uncompressed == <<"u", "n">> \o Word_compressed
Word_old == <<"o", "l", "d">>
Word_new == <<"n", "e", "w">>
Word_diff == <<"d", "i", "f", "f">>

\* one line of the file.  kind "title" is the line 'Diffuse Comparison: <old>
\* -> <new>' with the two labels as cells; "section" is the header row of a
\* table, key its name; "labels" a header row without a name; "row" a data
\* row; "rule" a border rule; "blank" an empty line; "text" any other line.
\* key is the text before the first column separator, stripped, and cells
\* the text between the separators that follow: cells[k] is parts[k] of the
\* split line before it is stripped.
Line(kind, key, cells) == [kind |-> kind, key |-> key, cells |-> cells]

TitleLine(old, new) == Line("title", "Diffuse Comparison:", <<old, new>>)
BannerLine == Line("text", "", <<>>)
BlankLine == Line("blank", "", <<>>)
RuleLine == Line("rule", "", <<>>)
LabelsLine == Line("labels", "", <<Word_compressed, Word_uncompressed>>)
SectionLine(name, cells) == Line("section", name, cells)
Row(key, cells) == Line("row", key, cells)

SectionNames == {"APK", "DEX", "ARSC"}
Tags == {"dotted", "v", "rc"}
CodeRows == {"both", "one", "none"}
Damages == {"none", "garbage", "malformed", "zero", "short", "bare"}
Layouts == {"labelled", "tool"}
FirstRows == {"dex", "total", "widget", ""}

\* a slim report file.  header: it has the title line; tag: how the release
\* tags of the title are written; old, new: the releases compared; codeRow:
\* the version code row has both codes, one, or is missing; sections: the
\* tables present; layout: the size labels are on the APK header row, or on
\* a line above it as the comparison tool prints them; first: the key of the
\* first row of the APK table; damage: what that row shows as the new
\* compressed size, or "short" when the first row of every table has one
\* cell less than its loop asks for, "bare" when it has no separator at all
RawReports ==
  [header : BOOLEAN, tag : Tags, old : Releases, new : Releases,
   codeRow : CodeRows, sections : SUBSET SectionNames, layout : Layouts,
   first : FirstRows, damage : Damages]

OldTag(c) ==
  IF c.tag = "v" THEN <<"v">> \o Label(c.old) ELSE Label(c.old)

NewTag(c) ==
  CASE c.tag = "dotted" -> Label(c.new)
    [] c.tag = "v" -> <<"v">> \o Label(c.new)
    [] c.tag = "rc" -> Label(c.new) \o <<"-", "r", "c">>

NewCompressedCell(c) ==
  CASE c.damage = "none" -> SizeCell(c.new)
    [] c.damage = "garbage" -> GarbageCell
    [] c.damage = "malformed" -> MalformedCell
    [] c.damage = "zero" -> ZeroSizeCell
    [] OTHER -> SizeCell(c.new)

\* the first row of a table as the file has it; need: the number of parts
\* the loop over the table asks for
FirstRow(c, row, need) ==
  CASE c.damage = "short" -> Row(row.key, SubSeq(row.cells, 1, need - 2))
    [] c.damage = "bare" ->
         IF row.key = "" THEN BlankLine ELSE Line("text", row.key, <<>>)
    [] OTHER -> row

\* the rows of the APK table: the first row, then the total row (the dex row
\* when the total row comes first)
ApkRows(c) ==
  <<FirstRow(c, Row(c.first, <<SizeCell(c.old), NewCompressedCell(c), SizeDiffCell,
                               USizeCell(c.old), USizeCell(c.new), SizeDiffCell>>),
             7),
    Row(IF c.first = "total" THEN "dex" ELSE "total",
        <<DexSizeCell(c.old), DexSizeCell(c.new), SizeDiffCell,
          DexSizeCell(c.old), DexSizeCell(c.new), SizeDiffCell>>)>>

ApkLines(c) ==
  IF c.layout = "labelled"
  THEN <<SectionLine("APK", <<Word_compressed, Word_uncompressed>>), RuleLine>>
       \o ApkRows(c) \o <<RuleLine>>
  ELSE <<LabelsLine, RuleLine,
         SectionLine("APK", <<Word_old, Word_new, Word_diff,
                              Word_old, Word_new, Word_diff>>),
         RuleLine, ApkRows(c)[1], RuleLine, ApkRows(c)[2]>>

DexLines(c) ==
  <<SectionLine("DEX", <<Word_old, Word_new, Word_diff>>), RuleLine,
    FirstRow(c, Row("methods", <<MethodsCell(c.old), MethodsCell(c.new), DiffCell>>), 3),
    Row("size", <<DexSizeCell(c.old), DexSizeCell(c.new), DiffCell>>),
    Row("fields", <<ZeroCountCell, ZeroCountCell, ZeroCountCell>>)>>

ArscLines(c) ==
  <<SectionLine("ARSC", <<Word_old, Word_new, Word_diff>>), RuleLine,
    FirstRow(c, Row("configs", <<ZeroCountCell, ZeroCountCell, ZeroCountCell>>), 3),
    Row("locales", <<EntriesCell(c.old), EntriesCell(c.new), DiffCell>>),
    Row("entries", <<EntriesCell(c.old), EntriesCell(c.new), DiffCell>>)>>

CodeLines(c) ==
  CASE c.codeRow = "both" ->
         <<Row("version code", <<CodeCell(c.old), CodeCell(c.new)>>)>>
    [] c.codeRow = "one" ->
         <<Row("version code", <<CodeCell(c.old), GarbageCell>>)>>
    [] c.codeRow = "none" -> <<>>

\* the text of the file, line by line, every line ending in a newline: the
\* title and its banner, the tables, each followed by an empty line, and the
\* version code row of the manifest
Text(c) ==
  (IF c.header THEN <<TitleLine(OldTag(c), NewTag(c))>> ELSE <<>>)
  \o <<BannerLine, BlankLine>>
  \o (IF "APK" \in c.sections THEN ApkLines(c) \o <<BlankLine>> ELSE <<>>)
  \o (IF "DEX" \in c.sections THEN DexLines(c) \o <<BlankLine>> ELSE <<>>)
  \o (IF "ARSC" \in c.sections THEN ArscLines(c) \o <<BlankLine>> ELSE <<>>)
  \o CodeLines(c)

\* ------------------------------------------------- parse_diffuse_slim_report
EmptyDict == <<>>

Put(d, k, v) == [x \in DOMAIN d \cup {k} |-> IF x = k THEN v ELSE d[x]]

\* `if value:` on an Optional[float]
Truthy(r) == r.kind = "float" /\ r.val.n # 0

\* the smallest index of S, 0 when there is none
FirstIn(S) == IF S = {} THEN 0 ELSE CHOOSE n \in S : \A m \in S : n <= m

Contains(s, w) == \E k \in 1..Len(s) : StartsAt(s, k, w)

\* '│' in line
HasSeparator(l) == l.kind \in {"row", "section", "labels"}

\* the longest prefix of s made of digits and points
DottedRun(s) == SubSeq(s, 1, RunEnd(s, 0, Digits \cup {"."}))

\* 'Diffuse Comparison:\s+([\d.]+)\s+→\s+([\d.]+)' matches in the line: the
\* first label is all digits and points up to the whitespace before the
\* arrow, the second starts with a digit or a point
IsComparisonTitle(l) ==
  /\ l.kind = "title"
  /\ l.cells[1] # <<>>
  /\ DottedRun(l.cells[1]) = l.cells[1]
  /\ DottedRun(l.cells[2]) # <<>>

\* re.search of the title pattern: <<>> or the two groups
version_match(lines) ==
  LET n == FirstIn({m \in 1..Len(lines) : IsComparisonTitle(lines[m])})
  IN IF n = 0 THEN <<>>
     ELSE <<[old |-> lines[n].cells[1], new |-> DottedRun(lines[n].cells[2])]>>

\* '\s+(\d+)' at the start of a cell: <<>> or the digits
LeadingInt(cell) ==
  LET a == SkipSpace(cell, 1)
  IN IF a > 1 /\ a <= Len(cell) /\ cell[a] \in Digits
     THEN <<SubSeq(cell, a, RunEnd(cell, a, Digits))>>
     ELSE <<>>

\* '\s+(\d+)\s+' is the whole cell
PaddedInt(cell) ==
  /\ LeadingInt(cell) # <<>>
  /\ LET e == RunEnd(cell, SkipSpace(cell, 1), Digits)
     IN e < Len(cell) /\ SkipSpace(cell, e + 1) > Len(cell)

\* 'version code\s+│\s+(\d+)\s+│\s+(\d+)' matches in the line
IsCodeRow(l) ==
  /\ l.kind = "row"
  /\ l.key = "version code"
  /\ Len(l.cells) >= 2
  /\ PaddedInt(l.cells[1])
  /\ LeadingInt(l.cells[2]) # <<>>

\* a search that takes each code on its own: a row whose second cell holds no
\* integer still gives the first code
version_code_match_each_alone(lines) ==
  LET n == FirstIn({m \in 1..Len(lines) :
                     /\ lines[m].kind = "row"
                     /\ lines[m].key = "version code"
                     /\ Len(lines[m].cells) >= 2
                     /\ PaddedInt(lines[m].cells[1])})
  IN IF n = 0 THEN <<>>
     ELSE <<[old |-> DigitsValue(LeadingInt(lines[n].cells[1])[1], 0),
             new |-> IF LeadingInt(lines[n].cells[2]) = <<>> THEN NoCode
                     ELSE DigitsValue(LeadingInt(lines[n].cells[2])[1], 0)]>>

\* a search that takes the second integer of the row as the old code
version_code_match_swapped(lines) ==
  LET n == FirstIn({m \in 1..Len(lines) : IsCodeRow(lines[m])})
  IN IF n = 0 THEN <<>>
     ELSE <<[old |-> DigitsValue(LeadingInt(lines[n].cells[2])[1], 0),
             new |-> DigitsValue(LeadingInt(lines[n].cells[1])[1], 0)]>>

\* re.search of the version code pattern: <<>> or the two groups as int()
version_code_match(lines) ==
  LET n == FirstIn({m \in 1..Len(lines) : IsCodeRow(lines[m])})
  IN IF n = 0 THEN <<>>
     ELSE <<[old |-> DigitsValue(LeadingInt(lines[n].cells[1])[1], 0),
             new |-> DigitsValue(LeadingInt(lines[n].cells[2])[1], 0)]>>

\* what the table patterns look for in a line
IsApkHeader(l) == l.kind = "section" /\ l.key = "APK"
IsDexHeader(l) == l.kind = "section" /\ l.key = "DEX"
IsArscHeader(l) == l.kind = "section" /\ l.key = "ARSC"
HasRule(l) == l.kind = "rule"
IsBlank(l) == l.kind = "blank"

\* 'compressed', later a separator, later 'uncompressed'
HasSizeLabels(l) ==
  /\ HasSeparator(l)
  /\ \E a, b \in 1..Len(l.cells) :
       /\ a < b
       /\ Contains(l.cells[a], Word_compressed)
       /\ Contains(l.cells[b], Word_uncompressed)

Min(S) == CHOOSE n \in S : \A m \in S : n <= m

\* re.search(r'APK\s+│.*?compressed.*?│.*?uncompressed.*?\n.*?───.*?\n(.*?)\n.*?───',
\* content, re.DOTALL): <<>> or <<the lines of group 1>>.  Every '.*?' may
\* run over line ends: the labels are looked for from the header on, the
\* rule after the line of the labels, and group 1 is the shortest text after
\* the line of that rule that is followed by a line end and, anywhere later,
\* a rule: the one line under the rule.
apk_table_match(lines) ==
  LET i == FirstIn({n \in 1..Len(lines) : IsApkHeader(lines[n])})
      u == IF i = 0 THEN 0 ELSE FirstIn({n \in i..Len(lines) : HasSizeLabels(lines[n])})
      j == IF u = 0 THEN 0 ELSE FirstIn({n \in (u + 1)..Len(lines) : HasRule(lines[n])})
      k == IF j = 0 THEN 0 ELSE FirstIn({n \in (j + 2)..Len(lines) : HasRule(lines[n])})
  IN IF k = 0 THEN <<>> ELSE <<SubSeq(lines, j + 1, j + 1)>>

\* re.search(r'DEX\s+│.*?\n.*?───.*?\n(.*?)(?:\n\s*\n|\n.*?ARSC)', content,
\* re.DOTALL): group 1 starts under the first rule after the header and is
\* the shortest run of lines followed by an empty line or, anywhere later
\* in the text, by 'ARSC'
dex_table_match(lines) ==
  LET i == FirstIn({n \in 1..Len(lines) : IsDexHeader(lines[n])})
      j == IF i = 0 THEN 0 ELSE FirstIn({n \in (i + 1)..Len(lines) : HasRule(lines[n])})
      Ends == {m \in (j + 1)..Len(lines) :
                 \/ m + 1 <= Len(lines) /\ IsBlank(lines[m + 1])
                 \/ \E n \in (m + 1)..Len(lines) : IsArscHeader(lines[n])}
  IN IF j = 0 \/ Ends = {} THEN <<>>
     ELSE <<SubSeq(lines, j + 1, Min(Ends))>>

\* re.search(r'ARSC\s+│.*?\n.*?───.*?\n(.*?)(?:\n\s*\n|$)', content,
\* re.DOTALL): group 1 starts under the first rule after the header and is
\* the shortest run of lines followed by an empty line or by the end of the
\* text
arsc_table_match(lines) ==
  LET i == FirstIn({n \in 1..Len(lines) : IsArscHeader(lines[n])})
      j == IF i = 0 THEN 0 ELSE FirstIn({n \in (i + 1)..Len(lines) : HasRule(lines[n])})
      Ends == {m \in (j + 1)..Len(lines) :
                 m = Len(lines) \/ IsBlank(lines[m + 1])}
  IN IF j = 0 THEN <<>>
     ELSE IF j = Len(lines) THEN << <<>> >>
     ELSE <<SubSeq(lines, j + 1, Min(Ends))>>

\* parts[k] of a split line, k >= 1
Part(l, k) == Strip(l.cells[k])

\* the body of the loop over the lines of the APK table; raised is TRUE once
\* parse_size_value has raised
RECURSIVE ParseApkRows(_, _)
ParseApkRows(rows, acc) ==
  IF rows = <<>> \/ acc.raised THEN acc
  ELSE LET row == Head(rows)
           parts_len == 1 + Len(row.cells)
       IN IF ~HasSeparator(row) THEN ParseApkRows(Tail(rows), acc)
          ELSE IF parts_len < 7 THEN ParseApkRows(Tail(rows), acc)
          ELSE IF row.key = "" THEN ParseApkRows(Tail(rows), acc)
          ELSE LET new_compressed == parse_size_value(Part(row, 2))
                   new_uncompressed == parse_size_value(Part(row, 5))
               IN IF new_compressed.kind = "ValueError"
                     \/ new_uncompressed.kind = "ValueError"
                  THEN [acc EXCEPT !.raised = TRUE]
                  ELSE ParseApkRows(Tail(rows),
                         [raised |-> FALSE,
                          compressed |->
                            IF Truthy(new_compressed)
                            THEN Put(acc.compressed, row.key, new_compressed.val)
                            ELSE acc.compressed,
                          uncompressed |->
                            IF Truthy(new_uncompressed)
                            THEN Put(acc.uncompressed, row.key, new_uncompressed.val)
                            ELSE acc.uncompressed])

\* the body of the loops over the lines of the DEX and ARSC tables
RECURSIVE ParseCountRows(_, _, _)
ParseCountRows(rows, known, acc) ==
  IF rows = <<>> THEN acc
  ELSE LET row == Head(rows)
           parts_len == 1 + Len(row.cells)
       IN IF ~HasSeparator(row) THEN ParseCountRows(Tail(rows), known, acc)
          ELSE IF parts_len < 3 THEN ParseCountRows(Tail(rows), known, acc)
          ELSE IF row.key \notin known THEN ParseCountRows(Tail(rows), known, acc)
          ELSE LET new_value == parse_number_value(Part(row, 2))
               IN ParseCountRows(Tail(rows), known,
                    IF new_value # <<>> THEN Put(acc, row.key, new_value[1])
                    ELSE acc)

DexKeys == {"files", "strings", "types", "classes", "methods", "fields"}
ArscKeys == {"configs", "entries"}

LogEntry(level, text, arg) == [level |-> level, text |-> text, arg |-> arg]

\* a rejection that logs nothing
HeaderMissing_silent(name) == [ret |-> <<>>, log |-> <<>>]

\* the branch taken when the header line is not found
HeaderMissing(name) ==
  [ret |-> <<>>,
   log |-> <<LogEntry("error", "Could not find version info in", name)>>]

\* the except branch: the exception is logged and None returned
ParseFailed(name) ==
  [ret |-> <<>>, log |-> <<LogEntry("error", "Failed to parse", name)>>]

NoSizes == [raised |-> FALSE, compressed |-> EmptyDict, uncompressed |-> EmptyDict]

\* ret is <<>> for None and <<report>> for the returned dict; log holds the
\* log_error calls made on the way; text is the content of the file by lines
parse_diffuse_slim_report(name, text) ==
  LET version_match_ == version_match(text)
      version_code_match_ == version_code_match(text)
      apk_table_match_ == apk_table_match(text)
      dex_table_match_ == dex_table_match(text)
      arsc_table_match_ == arsc_table_match(text)
      apk == IF apk_table_match_ = <<>> THEN NoSizes
             ELSE ParseApkRows(apk_table_match_[1], NoSizes)
  IN IF version_match_ = <<>> THEN HeaderMissing(name)
     ELSE IF apk.raised THEN ParseFailed(name)
     ELSE [ret |-> <<[old_version |-> version_match_[1].old,
                      new_version |-> version_match_[1].new,
                      old_version_code |->
                        IF version_code_match_ = <<>> THEN NoCode
                        ELSE version_code_match_[1].old,
                      new_version_code |->
                        IF version_code_match_ = <<>> THEN NoCode
                        ELSE version_code_match_[1].new,
                      apk_sizes |-> [compressed |-> apk.compressed,
                                     uncompressed |-> apk.uncompressed],
                      dex_metrics |->
                        IF dex_table_match_ = <<>> THEN EmptyDict
                        ELSE ParseCountRows(dex_table_match_[1], DexKeys, EmptyDict),
                      arsc_metrics |->
                        IF arsc_table_match_ = <<>> THEN EmptyDict
                        ELSE ParseCountRows(arsc_table_match_[1], ArscKeys, EmptyDict)]>>,
           log |-> <<>>]

\* ----------------------------------------------------- build_cumulative_data
\* r goes after every report already placed whose key is not smaller
RECURSIVE InsertByCode_descending(_, _)
InsertByCode_descending(placed, r) ==
  IF placed = <<>> THEN <<r>>
  ELSE IF r.new_version_code > Head(placed).new_version_code
       THEN <<r>> \o placed
       ELSE <<Head(placed)>> \o InsertByCode_descending(Tail(placed), r)

\* r goes after every report already placed whose key is not greater
RECURSIVE InsertByCode(_, _)
InsertByCode(placed, r) ==
  IF placed = <<>> THEN <<r>>
  ELSE IF r.new_version_code < Head(placed).new_version_code
       THEN <<r>> \o placed
       ELSE <<Head(placed)>> \o InsertByCode(Tail(placed), r)

RECURSIVE StableSort(_, _)
StableSort(reports, placed) ==
  IF reports = <<>> THEN placed
  ELSE StableSort(Tail(reports), InsertByCode(placed, Head(reports)))

\* the input as it is, in place of the sorted list
sorted_by_code_unsorted(parsed_reports) ==
  [raised |-> FALSE, list |-> parsed_reports]

\* sorted(parsed_reports, key=lambda r: r['new_version_code']): a stable
\* ascending sort; comparing a None key with any other key raises TypeError,
\* and every key of a list of two or more is compared
sorted_by_code(parsed_reports) ==
  IF Len(parsed_reports) >= 2
     /\ \E k \in 1..Len(parsed_reports) :
          parsed_reports[k].new_version_code = NoCode
  THEN [raised |-> TRUE, list |-> <<>>]
  ELSE [raised |-> FALSE, list |-> StableSort(parsed_reports, <<>>)]

\* a seed labelled with the new side of the first report
SeedSnapshot_new_side(first_report) ==
  [version |-> first_report.new_version,
   versionCode |-> first_report.new_version_code,
   compressed |-> first_report.apk_sizes.compressed,
   uncompressed |-> first_report.apk_sizes.uncompressed,
   dex |-> first_report.dex_metrics,
   arsc |-> first_report.arsc_metrics]

\* the snapshot appended for the old side of the first report
SeedSnapshot(first_report) ==
  [version |-> first_report.old_version,
   versionCode |-> first_report.old_version_code,
   compressed |-> first_report.apk_sizes.compressed,
   uncompressed |-> first_report.apk_sizes.uncompressed,
   dex |-> first_report.dex_metrics,
   arsc |-> first_report.arsc_metrics]

\* the snapshot appended for the new side of a report
NewSnapshot(report) ==
  [version |-> report.new_version,
   versionCode |-> report.new_version_code,
   compressed |-> report.apk_sizes.compressed,
   uncompressed |-> report.apk_sizes.uncompressed,
   dex |-> report.dex_metrics,
   arsc |-> report.arsc_metrics]

\* snapshots whose version the timeline already ends with are dropped
RECURSIVE DropRepeated(_)
DropRepeated(data) ==
  IF Len(data) <= 1 THEN data
  ELSE LET rest == DropRepeated(SubSeq(data, 1, Len(data) - 1))
       IN IF data[Len(data)].version = rest[Len(rest)].version THEN rest
          ELSE Append(rest, data[Len(data)])

\* a builder that removes duplicate versions
build_cumulative_data_dedup(parsed_reports) ==
  IF parsed_reports = <<>> THEN [raised |-> FALSE, data |-> <<>>]
  ELSE LET s == sorted_by_code(parsed_reports)
       IN IF s.raised THEN [raised |-> TRUE, data |-> <<>>]
          ELSE [raised |-> FALSE,
                data |-> DropRepeated(
                           <<SeedSnapshot(s.list[1])>>
                           \o [k \in 1..Len(s.list) |-> NewSnapshot(s.list[k])])]

\* a builder without the check for an empty list: sorted_reports[0] raises
build_cumulative_data_no_guard(parsed_reports) ==
  LET s == sorted_by_code(parsed_reports)
  IN IF s.raised \/ s.list = <<>> THEN [raised |-> TRUE, data |-> <<>>]
     ELSE [raised |-> FALSE,
           data |-> <<SeedSnapshot(s.list[1])>>
                    \o [k \in 1..Len(s.list) |-> NewSnapshot(s.list[k])]]

\* raised: the call ends in an exception; data: the returned list
build_cumulative_data(parsed_reports) ==
  IF parsed_reports = <<>> THEN [raised |-> FALSE, data |-> <<>>]
  ELSE LET s == sorted_by_code(parsed_reports)
       IN IF s.raised THEN [raised |-> TRUE, data |-> <<>>]
          ELSE [raised |-> FALSE,
                data |-> <<SeedSnapshot(s.list[1])>>
                         \o [k \in 1..Len(s.list) |-> NewSnapshot(s.list[k])]]

\* files with dotted tags, all three tables in the labelled layout, the dex
\* row first in the APK table, and a version code row with both codes or none
PlainReports ==
  {c \in RawReports :
     /\ c.tag = "dotted"
     /\ c.codeRow # "one"
     /\ c.sections = SectionNames
     /\ c.layout = "labelled"
     /\ c.first = "dex"
     /\ c.damage \in {"none", "garbage", "malformed"}}

\* the files of docs/apk-diffs compare a release with a later one; their
\* first APK row is as the tool printed it or has a malformed size
ForwardReports ==
  {c \in PlainReports : c.old < c.new /\ c.damage \in {"none", "malformed"}}

\* what the parser returns for each file of the directory, computed once
ParseOutcomes ==
  {[name |-> name, c |-> c, r |-> parse_diffuse_slim_report(name, Text(c))] :
     name \in 1..MaxFiles, c \in ForwardReports}

\* ---------------------------------------------------------------- the state
VARIABLES
  dir_exists,       \* docs/apk-diffs exists
  slim_files,       \* the sorted glob of *-slim.txt, by file name
  i,                \* index of the next file of the loop over slim_files
  content,          \* the report handed to a lone parser call
  parsed,           \* what the last call of the parser returned
  parsed_reports,   \* the reports parsed so far, the input of the builder
  cumulative_data,  \* the timeline
  dashboard,        \* <<>> or <<the data written to the dashboard file>>
  log,              \* the log_info / log_success / log_error calls so far
  exit_code,        \* NoCode while running, then what main returned
  pc,
  \* generate_apk_trend_report.py
  diffuse_bin,      \* <<>> or <<the path of the Diffuse binary>>
  work_dir,         \* the tags whose APK file is in the work directory
  releases,         \* the list loaded from releases.json
  apk_paths,        \* main's dict: the tags it holds an APK path for
  comparisons,      \* the (old, new, diff_output) triples of the run
  written           \* the report files written, in the order of writing

trend_vars == <<diffuse_bin, work_dir, releases, apk_paths, comparisons, written>>

vars ==
  <<dir_exists, slim_files, i, content, parsed, parsed_reports,
    cumulative_data, dashboard, log, exit_code, pc, trend_vars>>

\* the state of the trend report run while another script is looked at
TrendIdle ==
  /\ diffuse_bin = <<>>
  /\ work_dir = {}
  /\ releases = <<>>
  /\ apk_paths = {}
  /\ comparisons = <<>>
  /\ written = <<>>

\* ------------------------------------------------------------------- main()
Init ==
  /\ TrendIdle
  /\ dir_exists \in BOOLEAN
  /\ slim_files \in {[k \in 1..n |-> k] : n \in 0..MaxFiles}
  /\ dir_exists = FALSE => slim_files = <<>>
  /\ i = 1
  /\ content = <<>>
  /\ parsed = <<>>
  /\ parsed_reports = <<>>
  /\ cumulative_data = <<>>
  /\ dashboard = <<>>
  /\ log = <<>>
  /\ exit_code = NoCode
  /\ pc = "start"

\* the directory check and the glob
FindReports ==
  /\ pc = "start"
  /\ IF ~dir_exists
     THEN /\ log' = log \o <<LogEntry("error", "Directory not found:", 0)>>
          /\ exit_code' = 1
          /\ pc' = "done"
     ELSE IF slim_files = <<>>
     THEN /\ log' = log \o <<LogEntry("error", "No slim diffuse reports found in", 0)>>
          /\ exit_code' = 1
          /\ pc' = "done"
     ELSE /\ log' = log \o <<LogEntry("info", "Found slim diffuse reports", Len(slim_files))>>
          /\ exit_code' = exit_code
          /\ pc' = "parse"
  /\ UNCHANGED <<trend_vars, dir_exists, slim_files, i, content, parsed, parsed_reports,
                 cumulative_data, dashboard>>

\* a loop that stops at the first rejected file
ParseFile_stop_on_reject ==
  /\ pc = "parse"
  /\ i <= Len(slim_files)
  /\ \E o \in ParseOutcomes :
       LET r == o.r
       IN /\ o.name = slim_files[i]
          /\ parsed' = r.ret
          /\ IF r.ret # <<>>
             THEN /\ parsed_reports' = Append(parsed_reports, r.ret[1])
                  /\ log' = log \o <<LogEntry("info", "Parsing", slim_files[i])>>
                                \o r.log
                                \o <<LogEntry("success", "parsed",
                                              <<r.ret[1].old_version,
                                                r.ret[1].new_version>>)>>
                  /\ i' = i + 1
             ELSE /\ parsed_reports' = parsed_reports
                  /\ log' = log \o <<LogEntry("info", "Parsing", slim_files[i])>>
                                \o r.log
                  /\ i' = Len(slim_files) + 1
  /\ UNCHANGED <<trend_vars, dir_exists, slim_files, content, cumulative_data, dashboard,
                 exit_code, pc>>

\* one turn of the loop over slim_files; the file's text is read here
ParseFile ==
  /\ pc = "parse"
  /\ i <= Len(slim_files)
  /\ \E o \in ParseOutcomes :
       LET r == o.r
       IN /\ o.name = slim_files[i]
          /\ parsed' = r.ret
          /\ IF r.ret # <<>>
             THEN /\ parsed_reports' = Append(parsed_reports, r.ret[1])
                  /\ log' = log \o <<LogEntry("info", "Parsing", slim_files[i])>>
                                \o r.log
                                \o <<LogEntry("success", "parsed",
                                              <<r.ret[1].old_version,
                                                r.ret[1].new_version>>)>>
             ELSE /\ parsed_reports' = parsed_reports
                  /\ log' = log \o <<LogEntry("info", "Parsing", slim_files[i])>>
                                \o r.log
  /\ i' = i + 1
  /\ UNCHANGED <<trend_vars, dir_exists, slim_files, content, cumulative_data, dashboard,
                 exit_code, pc>>

\* after the loop: the check for an empty result
CheckParsed ==
  /\ pc = "parse"
  /\ i > Len(slim_files)
  /\ IF parsed_reports = <<>>
     THEN /\ log' = log \o <<LogEntry("error", "No reports could be parsed successfully", 0)>>
          /\ exit_code' = 1
          /\ pc' = "done"
     ELSE /\ log' = log \o <<LogEntry("success", "Successfully parsed reports",
                                      Len(parsed_reports))>>
          /\ exit_code' = exit_code
          /\ pc' = "build"
  /\ UNCHANGED <<trend_vars, dir_exists, slim_files, i, content, parsed, parsed_reports,
                 cumulative_data, dashboard>>

\* the call of build_cumulative_data; nothing catches what it raises
BuildData ==
  /\ pc = "build"
  /\ LET b == build_cumulative_data(parsed_reports)
     IN IF b.raised
        THEN /\ cumulative_data' = cumulative_data
             /\ log' = log \o <<LogEntry("info", "Building cumulative version data...", 0)>>
             /\ exit_code' = 1
             /\ pc' = "crashed"
        ELSE /\ cumulative_data' = b.data
             /\ log' = log \o <<LogEntry("info", "Building cumulative version data...", 0),
                                LogEntry("success", "Generated data for versions",
                                         Len(b.data))>>
             /\ exit_code' = exit_code
             /\ pc' = "generate"
  /\ UNCHANGED <<trend_vars, dir_exists, slim_files, i, content, parsed, parsed_reports,
                 dashboard>>

\* generate_dashboard_html writes the data, main returns 0
GenerateDashboard ==
  /\ pc = "generate"
  /\ dashboard' = <<cumulative_data>>
  /\ log' = log \o <<LogEntry("success", "Dashboard generated:", 0)>>
  /\ exit_code' = 0
  /\ pc' = "done"
  /\ UNCHANGED <<trend_vars, dir_exists, slim_files, i, content, parsed, parsed_reports,
                 cumulative_data>>

Next ==
  \/ FindReports
  \/ ParseFile
  \/ CheckParsed
  \/ BuildData
  \/ GenerateDashboard

Spec == Init /\ [][Next]_vars

\* ------------------------------- build_cumulative_data on any list of reports
\* the reports the parser returns for undamaged files
ParsedReportValues ==
  {parse_diffuse_slim_report(1, Text(c)).ret[1] :
     c \in {d \in PlainReports : d.header /\ d.damage = "none"}}

\* those of them that compare a release with a later one
ForwardReportValues ==
  {parse_diffuse_slim_report(1, Text(c)).ret[1] :
     c \in {d \in ForwardReports : d.header /\ d.damage = "none"}}

InitBuild ==
  /\ TrendIdle
  /\ dir_exists = TRUE
  /\ slim_files = <<>>
  /\ i = 1
  /\ content = <<>>
  /\ parsed = <<>>
  /\ \/ \E n \in 0..MaxReports :
          parsed_reports \in [1..n -> ForwardReportValues]
     \/ \E n \in 0..MaxAnyReports :
          parsed_reports \in [1..n -> ParsedReportValues]
  /\ cumulative_data = <<>>
  /\ dashboard = <<>>
  /\ log = <<>>
  /\ exit_code = NoCode
  /\ pc = "call_build"

CallBuild ==
  /\ pc = "call_build"
  /\ LET b == build_cumulative_data(parsed_reports)
     IN /\ cumulative_data' = b.data
        /\ pc' = IF b.raised THEN "raised" ELSE "returned"
  /\ UNCHANGED <<trend_vars, dir_exists, slim_files, i, content, parsed, parsed_reports,
                 dashboard, log, exit_code>>

NextBuild == CallBuild

SpecBuild == InitBuild /\ [][NextBuild]_vars

\* ------------------------------------ parse_diffuse_slim_report on any report
InitParse ==
  /\ TrendIdle
  /\ dir_exists = TRUE
  /\ slim_files = <<1>>
  /\ i = 1
  /\ content \in RawReports
  /\ parsed = <<>>
  /\ parsed_reports = <<>>
  /\ cumulative_data = <<>>
  /\ dashboard = <<>>
  /\ log = <<>>
  /\ exit_code = NoCode
  /\ pc = "call_parse"

CallParse ==
  /\ pc = "call_parse"
  /\ LET r == parse_diffuse_slim_report(slim_files[1], Text(content))
     IN /\ parsed' = r.ret
        /\ log' = r.log
  /\ pc' = "parse_returned"
  /\ UNCHANGED <<trend_vars, dir_exists, slim_files, i, content, parsed_reports,
                 cumulative_data, dashboard, exit_code>>

NextParse == CallParse

SpecParse == InitParse /\ [][NextParse]_vars

\* --------------------- parse_size_value and parse_number_value on any token
MaxPad == 2

\* the number part of a token: its text; kind "decimal" for digits with at
\* most one point, "grouped" for digits in comma groups, "malformed" for
\* points that make no number, "none" for no number at all; for a decimal
\* its value n / d; int, the first integer written in it (<<>> when it has
\* none); lead, whether the text starts with that integer
Number(text, kind, n, d, int, lead) ==
  [text |-> text, kind |-> kind, n |-> n, d |-> d, int |-> int, lead |-> lead]

Numbers ==
  {Number(<<"0">>, "decimal", 0, 1, <<0>>, TRUE),
   Number(<<"1">>, "decimal", 1, 1, <<1>>, TRUE),
   Number(<<"7">>, "decimal", 7, 1, <<7>>, TRUE),
   Number(<<"1", "0", "2", "4">>, "decimal", 1024, 1, <<1024>>, TRUE),
   Number(<<"1", "0", "4", "8", "5", "7", "6">>, "decimal", 1048576, 1,
          <<1048576>>, TRUE),
   Number(<<"5", ".", "9">>, "decimal", 59, 10, <<5>>, TRUE),
   Number(<<"1", ".">>, "decimal", 1, 1, <<1>>, TRUE),
   Number(<<".", "5">>, "decimal", 5, 10, <<5>>, FALSE),
   Number(<<"2", "1", ",", "4", "8", "1">>, "grouped", 0, 1, <<21481>>, TRUE),
   Number(<<"1", ".", "2", ".", "3">>, "malformed", 0, 1, <<1>>, TRUE),
   Number(<<".">>, "malformed", 0, 1, <<>>, FALSE),
   Number(<<>>, "none", 0, 1, <<>>, FALSE)}

Prefixes == {<<>>, <<" ", " ">>, <<"+">>, <<"-">>, <<"x", " ">>}

KnownUnits == {<<"M", "i", "B">>, <<"K", "i", "B">>, <<"B">>}

Units == KnownUnits \cup {<<>>, <<"G", "i", "B">>, <<"k", "b">>}

Breakdown == <<"(", "+", "1", "2", "3", " ", "-", "1", "1", "6", ")">>

Suffixes == {<<>>, <<" ">>, <<"s">>, Breakdown}

Spaces(k) == [j \in 1..k |-> " "]

\* a cell of a table: what stands before the number, the number, the
\* padding after it, the unit and what follows
Tokens ==
  [pre : Prefixes, num : Numbers, pad : 0..MaxPad, unit : Units, post : Suffixes]

TokenText(t) == t.pre \o t.num.text \o Spaces(t.pad) \o t.unit \o t.post

InitValue ==
  /\ TrendIdle
  /\ dir_exists = TRUE
  /\ slim_files = <<>>
  /\ i = 1
  /\ content \in Tokens
  /\ parsed = <<>>
  /\ parsed_reports = <<>>
  /\ cumulative_data = <<>>
  /\ dashboard = <<>>
  /\ log = <<>>
  /\ exit_code = NoCode
  /\ pc = "call_value"

CallSize ==
  /\ pc = "call_value"
  /\ parsed' = parse_size_value(TokenText(content))
  /\ pc' = "size_returned"
  /\ UNCHANGED <<trend_vars, dir_exists, slim_files, i, content, parsed_reports,
                 cumulative_data, dashboard, log, exit_code>>

CallNumber ==
  /\ pc = "call_value"
  /\ parsed' = parse_number_value(TokenText(content))
  /\ pc' = "number_returned"
  /\ UNCHANGED <<trend_vars, dir_exists, slim_files, i, content, parsed_reports,
                 cumulative_data, dashboard, log, exit_code>>

NextValue ==
  \/ CallSize
  \/ CallNumber

SpecValue == InitValue /\ [][NextValue]_vars

\* ------------------- build_cumulative_data on reports held by reference
\* A parsed report holds four dict objects; the builder puts those objects
\* themselves into the snapshots.  Here content is the heap, from the
\* identity of a dict to what it holds; the reports of parsed_reports and
\* the snapshots of cumulative_data hold identities; log is the heap as it
\* was before the caller changed a table; parsed tells which one it changed.
MaxSharedReports == 2

TableFields == {"compressed", "uncompressed", "dex", "arsc"}

\* the dict created by the parser for table f of the k-th report
DictId(k, f) == [report |-> k, table |-> f]

\* the k-th report of the list, with the identities of its dicts
ByReference(k, r) ==
  [r EXCEPT !.apk_sizes = [compressed |-> DictId(k, "compressed"),
                           uncompressed |-> DictId(k, "uncompressed")],
            !.dex_metrics = DictId(k, "dex"),
            !.arsc_metrics = DictId(k, "arsc")]

\* what each dict of the reports holds
HeapOf(reports) ==
  [id \in {DictId(k, f) : k \in 1..Len(reports), f \in TableFields} |->
     CASE id.table = "compressed" -> reports[id.report].apk_sizes.compressed
       [] id.table = "uncompressed" -> reports[id.report].apk_sizes.uncompressed
       [] id.table = "dex" -> reports[id.report].dex_metrics
       [] id.table = "arsc" -> reports[id.report].arsc_metrics]

InitShared ==
  /\ TrendIdle
  /\ dir_exists = TRUE
  /\ slim_files = <<>>
  /\ i = 1
  /\ \E n \in 0..MaxSharedReports :
       \E reports \in [1..n -> ForwardReportValues] :
         /\ parsed_reports = [k \in 1..n |-> ByReference(k, reports[k])]
         /\ content = HeapOf(reports)
  /\ log = content
  /\ parsed = <<>>
  /\ cumulative_data = <<>>
  /\ dashboard = <<>>
  /\ exit_code = NoCode
  /\ pc = "call_shared"

\* the call: the snapshots get the dicts of the reports, nothing is written
\* to a dict or to the caller's list
CallShared ==
  /\ pc = "call_shared"
  /\ LET b == build_cumulative_data(parsed_reports)
     IN /\ cumulative_data' = b.data
        /\ pc' = IF b.raised THEN "shared_raised" ELSE "shared_returned"
  /\ UNCHANGED <<trend_vars, dir_exists, slim_files, i, content, parsed, parsed_reports,
                 dashboard, log, exit_code>>

\* the caller adds an entry to one table of one snapshot of the result
ChangeTable ==
  /\ pc = "shared_returned"
  /\ \E k \in 1..Len(cumulative_data), f \in TableFields :
       /\ content' = [content EXCEPT ![cumulative_data[k][f]] = Put(@, "changed", 0)]
       /\ parsed' = <<[snapshot |-> k, table |-> f]>>
  /\ log' = content
  /\ pc' = "changed"
  /\ UNCHANGED <<trend_vars, dir_exists, slim_files, i, parsed_reports, cumulative_data,
                 dashboard, exit_code>>

NextShared ==
  \/ CallShared
  \/ ChangeTable

SpecShared == InitShared /\ [][NextShared]_vars

\* ------------------------ generate_slim_report (generate_apk_trend_report.py)
MaxPieces == 4

\* '====   DEX   ===='
DexBanner ==
  <<"=", "=", "=", "=", " ", " ", " ", "D", "E", "X", " ", " ", " ",
    "=", "=", "=", "=">>

\* '====   ARSC   ===='
ArscBanner ==
  <<"=", "=", "=", "=", " ", " ", " ", "A", "R", "S", "C", " ", " ", " ",
    "=", "=", "=", "=">>

\* what a full report is put together from: line ends, blanks, other text,
\* the banner of the DEX section and the banner of another section
Pieces == {<<"\n">>, <<" ">>, <<"x">>, DexBanner, ArscBanner}

RECURSIVE Flatten(_)
Flatten(pieces) ==
  IF pieces = <<>> THEN <<>> ELSE Head(pieces) \o Flatten(Tail(pieces))

\* str.split('\n'): one line more than there are line ends
RECURSIVE SplitLines(_)
SplitLines(s) ==
  LET e == FirstIn({n \in 1..Len(s) : s[n] = "\n"})
  IN IF e = 0 THEN <<s>>
     ELSE <<SubSeq(s, 1, e - 1)>> \o SplitLines(SubSeq(s, e + 1, Len(s)))

\* '\n'.join(lines)
RECURSIVE JoinLines(_)
JoinLines(lines) ==
  IF lines = <<>> THEN <<>>
  ELSE IF Len(lines) = 1 THEN lines[1]
  ELSE lines[1] \o <<"\n">> \o JoinLines(Tail(lines))

\* a loop that breaks on line.startswith(...), without the strip()
generate_slim_report_no_strip(full_report_content) ==
  LET lines == SplitLines(full_report_content)
      k == FirstIn({n \in 1..Len(lines) : StartsAt(lines[n], 1, DexBanner)})
  IN JoinLines(SubSeq(lines, 1, IF k = 0 THEN Len(lines) ELSE k - 1))

\* the lines up to the break, joined again
generate_slim_report(full_report_content) ==
  LET lines == SplitLines(full_report_content)
      k == FirstIn({n \in 1..Len(lines) :
                      StartsAt(Strip(lines[n]), 1, DexBanner)})
  IN JoinLines(SubSeq(lines, 1, IF k = 0 THEN Len(lines) ELSE k - 1))

InitSlim ==
  /\ TrendIdle
  /\ dir_exists = TRUE
  /\ slim_files = <<>>
  /\ i = 1
  /\ \E n \in 0..MaxPieces :
       \E pieces \in [1..n -> Pieces] : content = Flatten(pieces)
  /\ parsed = <<>>
  /\ parsed_reports = <<>>
  /\ cumulative_data = <<>>
  /\ dashboard = <<>>
  /\ log = <<>>
  /\ exit_code = NoCode
  /\ pc = "call_slim"

CallSlim ==
  /\ pc = "call_slim"
  /\ parsed' = generate_slim_report(content)
  /\ pc' = "slim_returned"
  /\ UNCHANGED <<trend_vars, dir_exists, slim_files, i, content, parsed_reports,
                 cumulative_data, dashboard, log, exit_code>>

NextSlim == CallSlim

SpecSlim == InitSlim /\ [][NextSlim]_vars

\* ------------------------------------ main() of generate_apk_trend_report.py
MaxTags == 3

\* the tags of the releases; a tag names one release
ReleaseTags == 1..MaxTags

\* what releases.json can hold: lists of releases with distinct tags
ReleaseLists ==
  UNION {{l \in [1..n -> ReleaseTags] : \A a, b \in 1..n : a # b => l[a] # l[b]} :
           n \in 0..MaxTags}

\* the standard output of `diffuse diff`: text, then the DEX section
DiffuseOutput == <<"x", "\n">> \o DexBanner \o <<"\n", "x">>

\* f"ERROR: Diffuse comparison failed\n{e.stderr}"
DiffuseError == <<"E", "\n", "x">>

\* f"Diffuse Comparison: {old tag} → {new tag}\n{'=' * 80}\n\n{diff_output}"
FullReport(old, new, diff_output) ==
  <<"T">> \o ToDigits(old) \o <<">">> \o ToDigits(new) \o <<"\n", "=", "\n", "\n">>
  \o diff_output

\* OUTPUT_DIR / f"{old tag}_to_{new tag}.txt" and ...-slim.txt
ReportFile(old, new, slim) ==
  [kind |-> IF slim THEN "slim" ELSE "full", old |-> old, new |-> new]

\* REPORT_PATH, docs/apk-size-trend.md
TrendReportFile == [kind |-> "markdown", old |-> 0, new |-> 0]

\* the two files written for one comparison
RECURSIVE SavedReports(_)
SavedReports(cs) ==
  IF cs = <<>> THEN <<>>
  ELSE LET c == Head(cs)
           full_report == FullReport(c.old, c.new, c.diff_output)
       IN <<[file |-> ReportFile(c.old, c.new, FALSE), text |-> full_report],
            [file |-> ReportFile(c.old, c.new, TRUE),
             text |-> generate_slim_report(full_report)]>>
          \o SavedReports(Tail(cs))

\* the log_success calls of the loop over the comparisons
RECURSIVE SavedLog(_)
SavedLog(cs) ==
  IF cs = <<>> THEN <<>>
  ELSE <<LogEntry("success", "Saved comparison:", <<Head(cs).old, Head(cs).new>>),
         LogEntry("success", "Saved slim version:", <<Head(cs).old, Head(cs).new>>)>>
       \o SavedLog(Tail(cs))

InitTrend ==
  /\ dir_exists = TRUE
  /\ slim_files = <<>>
  /\ i = 1
  /\ content = <<>>
  /\ parsed = <<>>
  /\ parsed_reports = <<>>
  /\ cumulative_data = <<>>
  /\ dashboard = <<>>
  /\ log = <<>>
  /\ exit_code = NoCode
  /\ pc = "trend_start"
  /\ diffuse_bin = <<>>
  /\ work_dir \in SUBSET ReleaseTags
  /\ releases = <<>>
  /\ apk_paths = {}
  /\ comparisons = <<>>
  /\ written = <<>>

\* build_diffuse inside main's try: the binary is there or gets built, or
\* the clone or the build fails and main returns 1
BuildDiffuse ==
  /\ pc = "trend_start"
  /\ \E ok \in BOOLEAN :
       IF ok
       THEN /\ diffuse_bin' = <<"diffuse">>
            /\ log' = log \o <<LogEntry("success", "Diffuse built", 0)>>
            /\ exit_code' = exit_code
            /\ pc' = "trend_load"
       ELSE /\ diffuse_bin' = diffuse_bin
            /\ log' = log \o <<LogEntry("error", "Failed to setup Diffuse:", 0)>>
            /\ exit_code' = 1
            /\ pc' = "trend_done"
  /\ UNCHANGED <<dir_exists, slim_files, i, content, parsed, parsed_reports,
                 cumulative_data, dashboard, work_dir, releases, apk_paths,
                 comparisons, written>>

\* get_releases and the check of the length: an unreadable file gives []
GetReleases ==
  /\ pc = "trend_load"
  /\ \E readable \in BOOLEAN, loaded \in ReleaseLists :
       LET got == IF readable THEN loaded ELSE <<>>
           said == IF readable
                   THEN LogEntry("success", "Loaded releases", Len(loaded))
                   ELSE LogEntry("error", "Failed to load releases:", 0)
       IN /\ releases' = got
          /\ IF Len(got) < 2
             THEN /\ log' = log \o <<said, LogEntry("error", "Need at least 2 releases", 0)>>
                  /\ exit_code' = 1
                  /\ pc' = "trend_done"
             ELSE /\ log' = log \o <<said>>
                  /\ exit_code' = exit_code
                  /\ pc' = "trend_download"
  /\ i' = 1
  /\ UNCHANGED <<dir_exists, slim_files, content, parsed, parsed_reports,
                 cumulative_data, dashboard, diffuse_bin, work_dir, apk_paths,
                 comparisons, written>>

\* a download loop that goes on after a failed download
DownloadApk_keep_going ==
  /\ pc = "trend_download"
  /\ i <= Len(releases)
  /\ \E ok \in BOOLEAN :
       IF releases[i] \in work_dir \/ ok
       THEN /\ work_dir' = work_dir \cup {releases[i]}
            /\ apk_paths' = apk_paths \cup {releases[i]}
            /\ log' = log \o <<LogEntry("success", "Downloaded:", releases[i])>>
       ELSE /\ work_dir' = work_dir
            /\ apk_paths' = apk_paths
            /\ log' = log \o <<LogEntry("error", "Failed to download APK for", releases[i])>>
  /\ exit_code' = exit_code
  /\ i' = IF i = Len(releases) THEN 1 ELSE i + 1
  /\ pc' = IF i = Len(releases) THEN "trend_compare" ELSE pc
  /\ UNCHANGED <<dir_exists, slim_files, content, parsed, parsed_reports,
                 cumulative_data, dashboard, diffuse_bin, releases, comparisons,
                 written>>

\* one turn of the loop over the releases: download_apk returns the path of
\* a file that is there already or that curl has fetched, or raises and main
\* returns 1; after the last release the loop over the comparisons starts
DownloadApk ==
  /\ pc = "trend_download"
  /\ i <= Len(releases)
  /\ \E ok \in BOOLEAN :
       IF releases[i] \in work_dir
       THEN /\ work_dir' = work_dir
            /\ apk_paths' = apk_paths \cup {releases[i]}
            /\ log' = log \o <<LogEntry("info", "APK already downloaded:", releases[i])>>
            /\ exit_code' = exit_code
            /\ i' = IF i = Len(releases) THEN 1 ELSE i + 1
            /\ pc' = IF i = Len(releases) THEN "trend_compare" ELSE pc
       ELSE IF ok
       THEN /\ work_dir' = work_dir \cup {releases[i]}
            /\ apk_paths' = apk_paths \cup {releases[i]}
            /\ log' = log \o <<LogEntry("success", "Downloaded:", releases[i])>>
            /\ exit_code' = exit_code
            /\ i' = IF i = Len(releases) THEN 1 ELSE i + 1
            /\ pc' = IF i = Len(releases) THEN "trend_compare" ELSE pc
       ELSE /\ work_dir' = work_dir
            /\ apk_paths' = apk_paths
            /\ log' = log \o <<LogEntry("error", "Failed to download APK for", releases[i])>>
            /\ exit_code' = 1
            /\ i' = i
            /\ pc' = "trend_done"
  /\ UNCHANGED <<dir_exists, slim_files, content, parsed, parsed_reports,
                 cumulative_data, dashboard, diffuse_bin, releases, comparisons,
                 written>>

\* a loop that compares every release with the first one
RunComparison_with_first ==
  /\ pc = "trend_compare"
  /\ i <= Len(releases) - 1
  /\ \E ok \in BOOLEAN :
       /\ comparisons' =
            Append(comparisons,
                   [old |-> releases[1], new |-> releases[i + 1],
                    diff_output |-> IF ok THEN DiffuseOutput ELSE DiffuseError])
       /\ log' = log \o <<LogEntry("info", "Running Diffuse:", <<releases[1], releases[i + 1]>>)>>
  /\ exit_code' = exit_code
  /\ i' = i + 1
  /\ pc' = IF i = Len(releases) - 1 THEN "trend_report" ELSE pc
  /\ UNCHANGED <<dir_exists, slim_files, content, parsed, parsed_reports,
                 cumulative_data, dashboard, diffuse_bin, work_dir, releases,
                 apk_paths, written>>

\* one turn of the loop over range(len(releases) - 1): the two paths are
\* looked up in apk_paths (a KeyError ends main), Diffuse runs and its output,
\* or the error text when it fails, is kept with the two releases
RunComparison ==
  /\ pc = "trend_compare"
  /\ i <= Len(releases) - 1
  /\ LET old_release == releases[i]
         new_release == releases[i + 1]
     IN IF old_release \notin apk_paths \/ new_release \notin apk_paths
        THEN /\ comparisons' = comparisons
             /\ log' = log
             /\ exit_code' = 1
             /\ i' = i
             /\ pc' = "trend_crashed"
        ELSE /\ \E ok \in BOOLEAN :
                  /\ comparisons' =
                       Append(comparisons,
                              [old |-> old_release, new |-> new_release,
                               diff_output |-> IF ok THEN DiffuseOutput
                                               ELSE DiffuseError])
                  /\ log' = log
                       \o <<LogEntry("info", "Running Diffuse:",
                                     <<old_release, new_release>>),
                            IF ok THEN LogEntry("success", "Diffuse comparison completed", 0)
                            ELSE LogEntry("error", "Diffuse failed:", 0)>>
             /\ exit_code' = exit_code
             /\ i' = i + 1
             /\ pc' = IF i = Len(releases) - 1 THEN "trend_report" ELSE pc
  /\ UNCHANGED <<dir_exists, slim_files, content, parsed, parsed_reports,
                 cumulative_data, dashboard, diffuse_bin, work_dir, releases,
                 apk_paths, written>>

\* generate_trend_report: the full and the slim report of every comparison,
\* then the markdown report; main returns 0
GenerateTrendReport ==
  /\ pc = "trend_report"
  /\ written' = written \o SavedReports(comparisons)
                \o <<[file |-> TrendReportFile, text |-> <<>>]>>
  /\ log' = log \o SavedLog(comparisons)
                \o <<LogEntry("success", "Trend report saved to", 0)>>
  /\ exit_code' = 0
  /\ pc' = "trend_done"
  /\ UNCHANGED <<dir_exists, slim_files, i, content, parsed, parsed_reports,
                 cumulative_data, dashboard, diffuse_bin, work_dir, releases,
                 apk_paths, comparisons>>

NextTrend ==
  \/ BuildDiffuse
  \/ GetReleases
  \/ DownloadApk
  \/ RunComparison
  \/ GenerateTrendReport

SpecTrend == InitTrend /\ [][NextTrend]_vars

\* --------------------------------- calculate_sessions (calculate_dev_time.py)
\* Times are counted in ticks of half an hour; hours are exact fractions.
MaxTime == 5
MaxCommits == 4
MaxGap == 3

TicksPerHour == 2

\* timedelta.total_seconds() / 3600
Hours(ticks) == Float(ticks, TicksPerHour)

\* a <= b for two fractions
LessEq(a, b) == a.n * b.d <= b.n * a.d

\* what get_git_timestamps returns: commit times in ascending order
SortedTimestamps ==
  UNION {{l \in [1..n -> 0..MaxTime] : \A a, b \in 1..n : a < b => l[a] <= l[b]} :
           n \in 0..MaxCommits}

\* the thresholds main() lets through: positive numbers of hours
Thresholds == {Hours(k) : k \in 1..MaxGap}

\* a test that starts a new session when the gap equals the threshold
SameSession_strict(gap, gap_threshold_hours) ==
  ~LessEq(gap_threshold_hours, gap)

\* `if gap <= gap_threshold_hours`
SameSession(gap, gap_threshold_hours) == LessEq(gap, gap_threshold_hours)

\* the dict appended for the session that ends
ClosedSession(current) ==
  [start |-> current.start,
   end |-> current.end,
   duration |-> Hours(current.end - current.start),
   commits |-> current.commits]

\* the loop over range(1, len(timestamps)) from index k on (k counts from 1
\* here, so timestamps[k] is the code's timestamps[i]), then the final append
RECURSIVE SessionLoop(_, _, _, _, _)
SessionLoop(timestamps, k, current, sessions, gap_threshold_hours) ==
  IF k > Len(timestamps) THEN Append(sessions, ClosedSession(current))
  ELSE LET gap == Hours(timestamps[k] - timestamps[k - 1])
       IN IF SameSession(gap, gap_threshold_hours)
          THEN SessionLoop(timestamps, k + 1,
                           [current EXCEPT !.end = timestamps[k],
                                           !.commits = @ + 1],
                           sessions, gap_threshold_hours)
          ELSE SessionLoop(timestamps, k + 1,
                           [start |-> timestamps[k], end |-> timestamps[k],
                            commits |-> 1],
                           Append(sessions, ClosedSession(current)),
                           gap_threshold_hours)

calculate_sessions(timestamps, gap_threshold_hours) ==
  IF timestamps = <<>> THEN <<>>
  ELSE SessionLoop(timestamps, 2,
                   [start |-> timestamps[1], end |-> timestamps[1], commits |-> 1],
                   <<>>, gap_threshold_hours)

InitSessions ==
  /\ TrendIdle
  /\ dir_exists = TRUE
  /\ slim_files = <<>>
  /\ i = 1
  /\ content \in [timestamps : SortedTimestamps, gap_threshold_hours : Thresholds]
  /\ parsed = <<>>
  /\ parsed_reports = <<>>
  /\ cumulative_data = <<>>
  /\ dashboard = <<>>
  /\ log = <<>>
  /\ exit_code = NoCode
  /\ pc = "call_sessions"

CallSessions ==
  /\ pc = "call_sessions"
  /\ parsed' = calculate_sessions(content.timestamps, content.gap_threshold_hours)
  /\ pc' = "sessions_returned"
  /\ UNCHANGED <<trend_vars, dir_exists, slim_files, i, content, parsed_reports,
                 cumulative_data, dashboard, log, exit_code>>

NextSessions == CallSessions

SpecSessions == InitSessions /\ [][NextSessions]_vars

\* =================================================================== claims
\* ----------------------------------------------- helpers for the properties
BuildEnded == pc \in {"returned", "raised"}

HasCodes(r) == r.old_version_code # NoCode /\ r.new_version_code # NoCode

\* reports that chain: each starts at the release where the one before ends,
\* and version codes grow along the chain
Chain(reports) ==
  /\ reports # <<>>
  /\ \A k \in 1..Len(reports) :
       /\ HasCodes(reports[k])
       /\ reports[k].old_version_code < reports[k].new_version_code
  /\ \A k \in 1..(Len(reports) - 1) :
       /\ reports[k].new_version = reports[k + 1].old_version
       /\ reports[k].new_version_code = reports[k + 1].old_version_code

Reordered(reports, p) == [k \in 1..Len(reports) |-> reports[p[k]]]

Orders(reports) == Permutations(1..Len(reports))

\* the input is some chain, handed over in any order
ChainInAnyOrder(reports) ==
  \E p \in Orders(reports) : Chain(Reordered(reports, p))

ChainVersions(chain) ==
  <<chain[1].old_version>> \o [k \in 1..Len(chain) |-> chain[k].new_version]

ChainCodes(chain) ==
  <<chain[1].old_version_code>>
  \o [k \in 1..Len(chain) |-> chain[k].new_version_code]

TimelineVersions == [k \in 1..Len(cumulative_data) |-> cumulative_data[k].version]

TimelineCodes == [k \in 1..Len(cumulative_data) |-> cumulative_data[k].versionCode]

StrictlyIncreasingWhereKnown ==
  \A k \in 1..(Len(cumulative_data) - 1) :
    (cumulative_data[k].versionCode # NoCode
     /\ cumulative_data[k + 1].versionCode # NoCode)
    => cumulative_data[k].versionCode < cumulative_data[k + 1].versionCode

ReferencedVersions ==
  {parsed_reports[k].old_version : k \in 1..Len(parsed_reports)}
  \cup {parsed_reports[k].new_version : k \in 1..Len(parsed_reports)}

Occurrences(v) ==
  Cardinality({k \in 1..Len(cumulative_data) : cumulative_data[k].version = v})

\* ------------------------------------------------------------------------ C1
\* C1: for reports that form an unbroken chain V0->V1, ..., V(n-1)->Vn with
\* strictly increasing version codes, handed over in any order, the builder
\* returns the timeline V0, V1, ..., Vn in that order.
C1_ChainTimelineInOrder ==
  \A p \in Orders(parsed_reports) :
    (BuildEnded /\ Chain(Reordered(parsed_reports, p)))
    => /\ pc = "returned"
       /\ TimelineVersions = ChainVersions(Reordered(parsed_reports, p))
       /\ TimelineCodes = ChainCodes(Reordered(parsed_reports, p))

\* a chain of three reports that arrived out of order has been built
C1_Witness ==
  /\ pc = "returned"
  /\ Len(parsed_reports) = 3
  /\ ChainInAnyOrder(parsed_reports)
  /\ ~Chain(parsed_reports)
  /\ Len(cumulative_data) = 4

\* ------------------------------------------------------------------------ C2
\* C2 as stated: in every returned timeline, consecutive snapshots with known
\* version codes have strictly increasing codes, for any input.
C2_StrictForAnyInput == pc = "returned" => StrictlyIncreasingWhereKnown

DistinctNewCodes ==
  \A j, k \in 1..Len(parsed_reports) :
    j # k => parsed_reports[j].new_version_code # parsed_reports[k].new_version_code

ForwardCodes ==
  \A k \in 1..Len(parsed_reports) :
    HasCodes(parsed_reports[k])
    => parsed_reports[k].old_version_code < parsed_reports[k].new_version_code

\* C2 amended: in every timeline returned for reports whose new version codes
\* are pairwise distinct and each greater than the old version code of the
\* same report, consecutive snapshots with known codes strictly increase.
C2_StrictForDistinctForward ==
  (pc = "returned" /\ DistinctNewCodes /\ ForwardCodes)
  => StrictlyIncreasingWhereKnown

\* such a timeline has been built from two reports that do not chain
C2_Witness ==
  /\ pc = "returned"
  /\ DistinctNewCodes
  /\ ForwardCodes
  /\ Len(parsed_reports) >= 2
  /\ ~ChainInAnyOrder(parsed_reports)
  /\ \A k \in 1..Len(parsed_reports) : HasCodes(parsed_reports[k])

\* ------------------------------------------------------------------------ C3
\* C3 as stated: each version some report refers to, as its old or its new
\* side, appears exactly once in the returned timeline.
C3_OnceForAnyInput ==
  pc = "returned" => \A v \in ReferencedVersions : Occurrences(v) = 1

\* C3 amended: when the reports form an unbroken chain with increasing version
\* codes (in any input order), each version they refer to appears exactly
\* once in the returned timeline.
C3_OnceForChains ==
  (pc = "returned" /\ ChainInAnyOrder(parsed_reports))
  => \A v \in ReferencedVersions : Occurrences(v) = 1

\* a chain of three reports: the two inner versions are the new side of one
\* report and the old side of the next
C3_Witness ==
  /\ pc = "returned"
  /\ Len(parsed_reports) = 3
  /\ ChainInAnyOrder(parsed_reports)
  /\ Cardinality(ReferencedVersions) = 4

\* ------------------------------------------------------------------------ C4
\* p lists the reports by ascending new version code, equal codes in input
\* order
AscendingOrder(reports, p) ==
  \A j, k \in 1..Len(reports) :
    j < k =>
      \/ reports[p[j]].new_version_code < reports[p[k]].new_version_code
      \/ /\ reports[p[j]].new_version_code = reports[p[k]].new_version_code
         /\ p[j] < p[k]

\* C4: no deduplication and no gap detection: for a non-empty input whose
\* version codes are all present the result has len(reports) + 1 snapshots,
\* the first labelled with the old version of the report with the smallest
\* new version code, the others with the new versions of the reports in
\* ascending order of new version code, whether or not the reports chain;
\* the call never fails.
C4_OneSnapshotPerReportPlusSeed ==
  (BuildEnded /\ parsed_reports # <<>>
   /\ \A k \in 1..Len(parsed_reports) : HasCodes(parsed_reports[k]))
  => /\ pc = "returned"
     /\ Len(cumulative_data) = Len(parsed_reports) + 1
     /\ \E p \in Orders(parsed_reports) :
          /\ AscendingOrder(parsed_reports, p)
          /\ cumulative_data[1].version = parsed_reports[p[1]].old_version
          /\ cumulative_data[1].versionCode = parsed_reports[p[1]].old_version_code
          /\ \A k \in 1..Len(parsed_reports) :
               /\ cumulative_data[k + 1].version = parsed_reports[p[k]].new_version
               /\ cumulative_data[k + 1].versionCode
                    = parsed_reports[p[k]].new_version_code

\* two reports with the same new version and a third that leaves a gap: the
\* timeline still has one snapshot per report and the seed
C4_Witness ==
  /\ pc = "returned"
  /\ Len(parsed_reports) = 3
  /\ \A k \in 1..3 : HasCodes(parsed_reports[k])
  /\ parsed_reports[1].new_version = parsed_reports[2].new_version
  /\ parsed_reports[3].old_version_code > parsed_reports[1].new_version_code
  /\ Len(cumulative_data) = 4

\* ------------------------------------------------------------------------ C6
\* C6 as stated: when some reports have no version code the builder still
\* returns a timeline, the reports with a code first in ascending order, the
\* reports without a code last, in input order.
C6_NoCodeSortsLast ==
  (BuildEnded /\ \E k \in 1..Len(parsed_reports) : ~HasCodes(parsed_reports[k]))
  => /\ pc = "returned"
     /\ \E p \in Orders(parsed_reports) :
          /\ \A k \in 1..Len(parsed_reports) :
               cumulative_data[k + 1].version = parsed_reports[p[k]].new_version
          /\ \A j, k \in 1..Len(parsed_reports) :
               j < k =>
                 \/ /\ HasCodes(parsed_reports[p[j]])
                    /\ ~HasCodes(parsed_reports[p[k]])
                 \/ /\ HasCodes(parsed_reports[p[j]])
                    /\ HasCodes(parsed_reports[p[k]])
                    /\ parsed_reports[p[j]].new_version_code
                         <= parsed_reports[p[k]].new_version_code
                 \/ /\ ~HasCodes(parsed_reports[p[j]])
                    /\ ~HasCodes(parsed_reports[p[k]])
                    /\ p[j] < p[k]

\* ------------------------------------------------------------------------ C7
\* C7: the builder applied to an empty list returns an empty timeline and
\* does not fail.
C7_EmptyInputEmptyTimeline ==
  (BuildEnded /\ parsed_reports = <<>>)
  => (pc = "returned" /\ cumulative_data = <<>>)

\* the builder has returned from a call with no reports
C7_Witness == pc = "returned" /\ parsed_reports = <<>> /\ cumulative_data = <<>>

\* ------------------------------------------------------------------------ C5
\* the release a snapshot is labelled with
ReleaseOf(version) == CHOOSE v \in Releases : Label(v) = version

\* the table has an entry for key, and it is value
Holds(table, key, value) == key \in DOMAIN table /\ table[key] = value

\* C5 as stated: every snapshot of the timeline holds the metrics of the
\* release it is labelled with: its uncompressed dex size, its DEX method
\* count and its ARSC entry count are the ones the reports show for that
\* release; so does the seed snapshot.
C5_SnapshotHoldsItsRelease ==
  pc \in {"generate", "done"} =>
    \A k \in 1..Len(cumulative_data) :
      LET v == ReleaseOf(cumulative_data[k].version)
      IN /\ Holds(cumulative_data[k].uncompressed, "dex",
                  parse_size_value(USizeCell(v)).val)
         /\ Holds(cumulative_data[k].dex, "methods",
                  parse_number_value(MethodsCell(v))[1])
         /\ Holds(cumulative_data[k].arsc, "entries",
                  parse_number_value(EntriesCell(v))[1])

\* ------------------------------------------------------------------------ C8
LoopEnded == pc \in {"build", "generate", "crashed", "done"} /\ slim_files # <<>>

Started(name) == \E j \in 1..Len(log) : log[j] = LogEntry("info", "Parsing", name)

RejectedAs(name, text) ==
  \E j \in 1..Len(log) : log[j] = LogEntry("error", text, name)

Rejected(name) ==
  \/ RejectedAs(name, "Could not find version info in")
  \/ RejectedAs(name, "Failed to parse")

\* the versions of the reports logged as parsed, in the order of the log
RECURSIVE ParsedLabels(_)
ParsedLabels(entries) ==
  IF entries = <<>> THEN <<>>
  ELSE IF Head(entries).level = "success" /\ Head(entries).text = "parsed"
       THEN <<Head(entries).arg>> \o ParsedLabels(Tail(entries))
       ELSE ParsedLabels(Tail(entries))

\* C8: a report without the header line is rejected on its own: once the
\* loop has ended every file of the batch has been handed to the parser,
\* whatever came before it, and the reports that parsed are, in file order,
\* exactly the list the builder is called with.
C8_BadReportRejectedAlone ==
  LoopEnded =>
    /\ \A name \in 1..Len(slim_files) : Started(name)
    /\ Len(parsed_reports)
         = Cardinality({name \in 1..Len(slim_files) : ~Rejected(name)})
    /\ ParsedLabels(log)
         = [k \in 1..Len(parsed_reports) |->
              <<parsed_reports[k].old_version, parsed_reports[k].new_version>>]
    /\ (parsed_reports # <<>> => pc # "done" \/ exit_code = 0)

\* the first file had no header line, the second parsed, and the builder is
\* about to be called with it
C8_Witness ==
  /\ pc = "build"
  /\ Len(slim_files) = 2
  /\ RejectedAs(1, "Could not find version info in")
  /\ ~Rejected(2)
  /\ Len(parsed_reports) = 1

\* ------------------------------------------------------------------------ C9
\* the file has the header line, with dotted version labels
HasHeaderLine(c) == c.header /\ c.tag = "dotted"

\* C9 as stated: a report that contains the header line is never rejected;
\* missing or unparseable cells only degrade fields.
C9_HeaderSufficesToParse ==
  (pc = "parse_returned" /\ HasHeaderLine(content)) => parsed # <<>>

\* ----------------------------------------------------------------------- C10
\* the reason a caller can read from what the parser returned
ReasonCarried(ret) ==
  IF ret # <<>> /\ "reason" \in DOMAIN ret[1] THEN ret[1].reason ELSE ""

Tables(r) == [APK |-> r.apk_sizes, DEX |-> r.dex_metrics, ARSC |-> r.arsc_metrics]

EmptyTable(name) ==
  IF name = "APK" THEN [compressed |-> EmptyDict, uncompressed |-> EmptyDict]
  ELSE EmptyDict

\* the same file with every section in it
WithAllSections(c) == [c EXCEPT !.sections = SectionNames]

\* C11 as stated: a report with the header line and well-formed cells that
\* lacks some sections parses; the table of each missing section is empty
\* and the table of each section present is what it is when no section is
\* missing.
C11_MissingSectionLeavesOthers ==
  (pc = "parse_returned" /\ HasHeaderLine(content) /\ content.damage # "malformed")
  => /\ parsed # <<>>
     /\ \A name \in SectionNames \ content.sections :
          Tables(parsed[1])[name] = EmptyTable(name)
     /\ \A name \in content.sections :
          Tables(parsed[1])[name]
            = Tables(parse_diffuse_slim_report(
                       slim_files[1], Text(WithAllSections(content))).ret[1])[name]

\* ----------------------------------------------------------------------- C12
\* the same file with both codes in its version code row
WithBothCodes(c) == [c EXCEPT !.codeRow = "both"]

\* C12: a report whose version code row is missing, or holds an integer in
\* one value column only, parses whenever it parses with both codes, and both
\* its codes are null; a report with both integers has them as its old and
\* new version code.  The codes are both present or both null.
C12_CodesBothOrNone ==
  pc = "parse_returned"
  => /\ parsed # <<>>
        <=> parse_diffuse_slim_report(
              slim_files[1], Text(WithBothCodes(content))).ret # <<>>
     /\ parsed # <<>>
        => /\ content.codeRow = "both"
              => /\ parsed[1].old_version_code = VersionCode(content.old)
                 /\ parsed[1].new_version_code = VersionCode(content.new)
           /\ content.codeRow # "both"
              => /\ parsed[1].old_version_code = NoCode
                 /\ parsed[1].new_version_code = NoCode
           /\ parsed[1].old_version_code = NoCode
              <=> parsed[1].new_version_code = NoCode

\* a report whose version code row holds one integer only has parsed
C12_Witness ==
  /\ pc = "parse_returned"
  /\ content.codeRow = "one"
  /\ parsed # <<>>
  /\ parsed[1].old_version_code = NoCode
  /\ parsed[1].new_version_code = NoCode

\* ----------------------------------------------------------------------- C13
\* C13 as stated: every parsed report that has both version codes has a new
\* version code greater than its old version code.
C13_NewCodeGreater ==
  (pc = "parse_returned" /\ parsed # <<>> /\ HasCodes(parsed[1]))
  => parsed[1].new_version_code > parsed[1].old_version_code

\* C13 amended: the parser copies the two integers of the version code row
\* without comparing them: a parsed report that has both codes has a new
\* version code greater than its old one exactly when the second integer of
\* the row is greater than the first.
C13_CodesAsInTheRow ==
  (pc = "parse_returned" /\ parsed # <<>> /\ HasCodes(parsed[1]))
  => (parsed[1].new_version_code > parsed[1].old_version_code
      <=> VersionCode(content.new) > VersionCode(content.old))

\* a report that compares a release with a later one has parsed with both
\* codes
C13_Witness ==
  /\ pc = "parse_returned"
  /\ parsed # <<>>
  /\ HasCodes(parsed[1])
  /\ content.old < content.new
  /\ parsed[1].new_version_code > parsed[1].old_version_code

\* ----------------------------------------------------------------------- C14
\* C14 as stated: a report that parses has as old_version and new_version
\* the non-empty labels of its header line, and every report whose header
\* line has dotted version labels parses.
C14_VersionsAreTheLabels ==
  pc = "parse_returned"
  => /\ parsed # <<>>
        => /\ parsed[1].old_version # <<>>
           /\ parsed[1].new_version # <<>>
           /\ parsed[1].old_version = OldTag(content)
           /\ parsed[1].new_version = NewTag(content)
     /\ HasHeaderLine(content) => parsed # <<>>

\* ----------------------------------------------------------------------- C15
\* the value a size cell holds, <<>> when it holds no parseable size
SizeShown(cell) ==
  LET r == parse_size_value(Strip(cell))
  IN IF r.kind = "float" THEN <<r.val>> ELSE <<>>

\* C15 as stated: for every data row of the APK section with a key and all
\* its cells, the
\* compressed and uncompressed entries of that key are the sizes its cells 2
\* and 5 hold, whenever the cell holds a parseable size, a size of zero
\* included.
C15_NewSideSizesRecorded ==
  (pc = "parse_returned" /\ parsed # <<>> /\ "APK" \in content.sections)
  => \A k \in 1..Len(ApkRows(content)) :
       LET row == ApkRows(content)[k]
       IN (row.key # "" /\ row.kind = "row" /\ Len(row.cells) >= 5)
          => /\ SizeShown(row.cells[2]) # <<>>
                => Holds(parsed[1].apk_sizes.compressed, row.key,
                         SizeShown(row.cells[2])[1])
             /\ SizeShown(row.cells[5]) # <<>>
                => Holds(parsed[1].apk_sizes.uncompressed, row.key,
                         SizeShown(row.cells[5])[1])

\* ----------------------------------------------------------------------- C16
\* C16 as stated: every row of the APK table that has a key and well-formed,
\* non-zero sizes is recorded under that key: the total row under 'total',
\* any other row, a component outside the known names included, under its
\* own name.
C16_RowsRecordedUnderTheirKey ==
  (pc = "parse_returned" /\ parsed # <<>> /\ "APK" \in content.sections
   /\ content.layout = "labelled" /\ content.damage = "none")
  => \A k \in 1..Len(ApkRows(content)) :
       LET row == ApkRows(content)[k]
       IN row.key # ""
          => /\ Holds(parsed[1].apk_sizes.compressed, row.key,
                      SizeShown(row.cells[2])[1])
             /\ Holds(parsed[1].apk_sizes.uncompressed, row.key,
                      SizeShown(row.cells[5])[1])

\* ----------------------------------------------------------------------- C17
\* the data rows of a table: its lines under the header and the border rule
DataRows(table) == SubSeq(table, 3, Len(table))

\* the integer a count cell holds, <<>> when it holds none
CountShown(cell) == parse_number_value(Strip(cell))

\* the entries the rows stand for: the rows with a known key and an integer
\* in cell 2, mapped to that integer
ExpectedCounts(rows, known) ==
  LET K == {k \in 1..Len(rows) :
              /\ rows[k].key \in known
              /\ rows[k].kind = "row"
              /\ Len(rows[k].cells) >= 2
              /\ CountShown(rows[k].cells[2]) # <<>>}
  IN [key \in {rows[k].key : k \in K} |->
        CountShown(rows[CHOOSE k \in K : rows[k].key = key].cells[2])[1]]

SameTable(a, b) == DOMAIN a = DOMAIN b /\ \A k \in DOMAIN a : a[k] = b[k]

\* C17 as stated: dex_metrics holds exactly the rows of the DEX table whose
\* key is a known DEX metric and whose new-side cell holds an integer, zero
\* included, each mapped to that integer; arsc_metrics likewise for the ARSC
\* table; rows with other keys add nothing.
C17_KnownRowsExactly ==
  (pc = "parse_returned" /\ parsed # <<>>)
  => /\ "DEX" \in content.sections
        => SameTable(parsed[1].dex_metrics,
                     ExpectedCounts(DataRows(DexLines(content)), DexKeys))
     /\ "ARSC" \in content.sections
        => SameTable(parsed[1].arsc_metrics,
                     ExpectedCounts(DataRows(ArscLines(content)), ArscKeys))

\* ----------------------------------------------------------------------- C18
Blank(s) == \A k \in 1..Len(s) : IsSpace(s[k])

\* the content is '<number> <unit>': a decimal and one of the three units,
\* with nothing but padding around them
IsSizeToken(t) ==
  /\ Blank(t.pre)
  /\ t.num.kind = "decimal"
  /\ t.unit \in KnownUnits
  /\ Blank(t.post)

\* how many of the unit make one MiB
PerMiB(unit) ==
  IF unit = <<"M", "i", "B">> THEN 1
  ELSE IF unit = <<"K", "i", "B">> THEN 1024
  ELSE 1024 * 1024

TokenIs(t, digits, unit) ==
  IsSizeToken(t) /\ t.num.text = digits /\ t.pad = 1 /\ t.unit = unit

\* C18: parse_size_value turns '<number> <unit>' into the number divided by
\* 1 for MiB, by 1024 for KiB and by 1024 * 1024 for B; '1048576 B',
\* '1024 KiB' and '1 MiB' all give 1.
C18_SizeInMiB ==
  (pc = "size_returned" /\ IsSizeToken(content))
  => /\ parsed.kind = "float"
     /\ parsed.val.n * (content.num.d * PerMiB(content.unit))
          = content.num.n * parsed.val.d
     /\ (\/ TokenIs(content, <<"1", "0", "4", "8", "5", "7", "6">>, <<"B">>)
         \/ TokenIs(content, <<"1", "0", "2", "4">>, <<"K", "i", "B">>)
         \/ TokenIs(content, <<"1">>, <<"M", "i", "B">>))
        => parsed.val = Float(1, 1)

\* '1024 KiB' has been parsed to 1
C18_Witness ==
  /\ pc = "size_returned"
  /\ TokenIs(content, <<"1", "0", "2", "4">>, <<"K", "i", "B">>)
  /\ parsed = [kind |-> "float", val |-> [n |-> 1, d |-> 1]]

\* ----------------------------------------------------------------------- C19
\* C19 as stated: parse_size_value returns a number or null for every token
\* and never raises; a token without a number and a unit, with an unknown
\* unit or with a malformed number yields null.
C19_SizeNeverRaises ==
  pc = "size_returned"
  => /\ parsed.kind \in {"float", "None"}
     /\ (\/ content.num.kind \in {"none", "malformed"}
         \/ content.unit \notin KnownUnits /\ content.post # <<"s">>)
        => parsed.kind = "None"

\* ----------------------------------------------------------------------- C20
\* the first integer written in the token, with its sign: that of the number
\* part, negative when a minus sign stands right before it; without one, the
\* first integer of what follows
FirstInteger(t) ==
  IF t.num.int # <<>>
  THEN IF t.num.lead /\ t.pre = <<"-">> THEN <<0 - t.num.int[1]>> ELSE t.num.int
  ELSE IF t.post = Breakdown THEN <<123>>
  ELSE <<>>

\* C20: parse_number_value returns the first integer found in the token,
\* with its sign and without the commas of its thousands groups, whatever
\* follows it, and null when the token holds no integer.
C20_FirstInteger ==
  pc = "number_returned" => parsed = FirstInteger(content)

\* '+7 (+123 -116)' has been parsed to 7
C20_Witness ==
  /\ pc = "number_returned"
  /\ TokenText(content)
       = <<"+", "7", " ", "(", "+", "1", "2", "3", " ", "-", "1", "1", "6", ")">>
  /\ parsed = <<7>>

\* ----------------------------------------------------------------------- C21
\* main() is over: it returned, or an exception left it
MainEnded == pc \in {"done", "crashed"}

\* C21 as stated: when no report of the batch parses, main returns 1 and
\* neither builds a timeline nor writes the dashboard; when at least one
\* report parses, nothing is built or written while reports are still being
\* parsed, and the run ends with the timeline of the parsed reports built and
\* written to the dashboard.
C21_BuildOnceThenWrite ==
  /\ pc \in {"start", "parse", "build"} =>
       (cumulative_data = <<>> /\ dashboard = <<>>)
  /\ pc = "generate" => dashboard = <<>>
  /\ (MainEnded /\ parsed_reports = <<>>) =>
       (exit_code = 1 /\ cumulative_data = <<>> /\ dashboard = <<>>)
  /\ (MainEnded /\ parsed_reports # <<>>) =>
       /\ i > Len(slim_files)
       /\ cumulative_data = build_cumulative_data(parsed_reports).data
       /\ cumulative_data # <<>>
       /\ dashboard = <<cumulative_data>>

\* ----------------------------------------------------------------------- C22
\* the line is the header of the named section
IsHeaderOf(name, l) == l.kind = "section" /\ l.key = name

\* what ends the rows of a section: a rule, a blank line, a section header
IsTerminator(l) ==
  HasRule(l) \/ IsBlank(l) \/ \E name \in SectionNames : IsHeaderOf(name, l)

\* the data rows between the rule under the header of the named section and
\* the first terminator that follows
RowsUnderHeader(lines, name) ==
  LET h == FirstIn({n \in 1..Len(lines) : IsHeaderOf(name, lines[n])})
      t == FirstIn({n \in (h + 2)..Len(lines) : IsTerminator(lines[n])})
  IN IF h = 0 \/ h + 1 > Len(lines) \/ ~HasRule(lines[h + 1]) THEN <<>>
     ELSE SubSeq(lines, h + 2, IF t = 0 THEN Len(lines) ELSE t - 1)

\* the rows the loop over a table match goes through, none without a match
RowsOf(match) == IF match = <<>> THEN <<>> ELSE match[1]

\* C22 as stated: the rows extracted for a section of the report are exactly
\* the data rows between the rule under the section's header and the first
\* rule, blank line or section header that follows.
C22_RowsUpToTheTerminator ==
  pc = "parse_returned" =>
    /\ RowsOf(apk_table_match(Text(content))) = RowsUnderHeader(Text(content), "APK")
    /\ RowsOf(dex_table_match(Text(content))) = RowsUnderHeader(Text(content), "DEX")
    /\ RowsOf(arsc_table_match(Text(content))) = RowsUnderHeader(Text(content), "ARSC")

\* ----------------------------------------------------------------------- C23
\* a row the loop over a table of `need` parts passes over: it has no
\* separator, or fewer parts than the loop asks for
IsSkippedRow(row, need) == ~HasSeparator(row) \/ 1 + Len(row.cells) < need

\* the keys of the rows of a section that the loops pass over
SkippedKeys(lines, name, need) ==
  LET rows == RowsUnderHeader(lines, name)
  IN {rows[k].key : k \in {n \in 1..Len(rows) : IsSkippedRow(rows[n], need)}}

\* the rows of a section that have all the parts the loop asks for
FullRows(lines, name, need) ==
  SelectSeq(RowsUnderHeader(lines, name), LAMBDA row : ~IsSkippedRow(row, need))

\* C23 as stated: a report in which the first row of every table is short of
\* cells or has no column separator parses as it does without a flaw; the
\* flawed rows add no entry, and the other rows of each section are still
\* recorded: the sizes of every other APK row with a key, the counts of every
\* other DEX and ARSC row with a known key.
C23_ShortRowsSkipped ==
  (pc = "parse_returned" /\ content.damage \in {"short", "bare"}
   /\ HasHeaderLine(content))
  => /\ parsed # <<>>
     /\ \A key \in SkippedKeys(Text(content), "APK", 7) :
          /\ key \notin DOMAIN parsed[1].apk_sizes.compressed
          /\ key \notin DOMAIN parsed[1].apk_sizes.uncompressed
     /\ \A key \in SkippedKeys(Text(content), "DEX", 3) :
          key \notin DOMAIN parsed[1].dex_metrics
     /\ \A key \in SkippedKeys(Text(content), "ARSC", 3) :
          key \notin DOMAIN parsed[1].arsc_metrics
     /\ LET rows == FullRows(Text(content), "APK", 7)
        IN \A k \in 1..Len(rows) :
             rows[k].key # ""
             => /\ Holds(parsed[1].apk_sizes.compressed, rows[k].key,
                         SizeShown(rows[k].cells[2])[1])
                /\ Holds(parsed[1].apk_sizes.uncompressed, rows[k].key,
                         SizeShown(rows[k].cells[5])[1])
     /\ SameTable(parsed[1].dex_metrics,
                  ExpectedCounts(FullRows(Text(content), "DEX", 3), DexKeys))
     /\ SameTable(parsed[1].arsc_metrics,
                  ExpectedCounts(FullRows(Text(content), "ARSC", 3), ArscKeys))

\* ----------------------------------------------------------------------- C24
\* a table as the caller sees it through a reference
TableAt(heap, id) == heap[id]

\* every dict of the caller's reports holds in heap what it holds in before
ReportsAsBefore(heap, before) ==
  \A k \in 1..Len(parsed_reports), f \in TableFields :
    SameTable(TableAt(heap, DictId(k, f)), TableAt(before, DictId(k, f)))

\* the caller's list has its reports in the places they had
ListAsBefore ==
  \A k \in 1..Len(parsed_reports) :
    parsed_reports[k].dex_metrics = DictId(k, "dex")

\* C24 as stated: the builder leaves the caller's list and every parsed
\* report as they were; and after a change to a metric table of one snapshot
\* every other snapshot and every parsed report hold what they held before.
C24_InputKeptSnapshotsOwn ==
  /\ pc \in {"shared_returned", "shared_raised"} =>
       (ListAsBefore /\ ReportsAsBefore(content, log))
  /\ pc = "changed" =>
       /\ \A j \in 1..Len(cumulative_data), f \in TableFields :
            j # parsed[1].snapshot
            => SameTable(TableAt(content, cumulative_data[j][f]),
                         TableAt(log, cumulative_data[j][f]))
       /\ ReportsAsBefore(content, log)

\* ----------------------------------------------------------------------- C25
\* s is the beginning of t
IsPrefix(s, t) == Len(s) <= Len(t) /\ SubSeq(t, 1, Len(s)) = s

\* the lines of the text that start with the DEX banner as they stand
BannerLines(text) ==
  {n \in 1..Len(SplitLines(text)) : StartsAt(SplitLines(text)[n], 1, DexBanner)}

\* the lines of the text that start with the DEX banner after blanks
IndentedBannerLines(text) ==
  {n \in 1..Len(SplitLines(text)) :
     StartsAt(Strip(SplitLines(text)[n]), 1, DexBanner)}

\* the lines of the text before line k, all of them when k is 0
LinesBefore(text, k) ==
  SubSeq(SplitLines(text), 1, IF k = 0 THEN Len(SplitLines(text)) ELSE k - 1)

\* C25 as stated: generate_slim_report returns the lines of the report before
\* its first line that starts with '====   DEX   ====', in their order; the
\* result is a prefix of the input, has no such line, is the input when the
\* input has no such line, and is a fixed point of generate_slim_report.
C25_LinesBeforeTheBanner ==
  pc = "slim_returned" =>
    /\ parsed = JoinLines(LinesBefore(content, FirstIn(BannerLines(content))))
    /\ IsPrefix(parsed, content)
    /\ BannerLines(parsed) = {}
    /\ BannerLines(content) = {} => parsed = content
    /\ generate_slim_report(parsed) = parsed

\* C25 amended: the same, for the first line that starts with the banner
\* once leading blanks are taken off; a report that is cut at its first line
\* is returned empty.
C25_LinesBeforeTheIndentedBanner ==
  pc = "slim_returned" =>
    /\ parsed = JoinLines(LinesBefore(content, FirstIn(IndentedBannerLines(content))))
    /\ IsPrefix(parsed, content)
    /\ IndentedBannerLines(parsed) = {}
    /\ IndentedBannerLines(content) = {} => parsed = content
    /\ generate_slim_report(parsed) = parsed

\* a report with text before an indented DEX banner has been cut there
C25_Witness ==
  /\ pc = "slim_returned"
  /\ content = <<"x", "\n", " ">> \o DexBanner
  /\ parsed = <<"x">>

\* ----------------------------------------------------------------------- C26
\* the loop over the comparisons has ended
ComparisonsMade == pc = "trend_report" \/ (pc = "trend_done" /\ exit_code = 0)

\* the places of `written` that hold the file
WritesOf(file) == {k \in 1..Len(written) : written[k].file = file}

\* C26: the comparisons made so far compare each release of the list with
\* the next one, in list order, so each comparison starts from the release
\* the one before ended with; once the loop has ended there are n - 1 of
\* them for n >= 2 releases; and when main has returned 0 every comparison,
\* failed or not, has one full and one slim report file.
C26_ChainOfComparisons ==
  /\ \A k \in 1..Len(comparisons) :
       /\ k + 1 <= Len(releases)
       /\ comparisons[k].old = releases[k]
       /\ comparisons[k].new = releases[k + 1]
       /\ k > 1 => comparisons[k].old = comparisons[k - 1].new
  /\ ComparisonsMade =>
       (Len(releases) >= 2 /\ Len(comparisons) = Len(releases) - 1)
  /\ (pc = "trend_done" /\ exit_code = 0) =>
       \A k \in 1..Len(comparisons) :
         /\ Cardinality(WritesOf(ReportFile(comparisons[k].old,
                                            comparisons[k].new, FALSE))) = 1
         /\ Cardinality(WritesOf(ReportFile(comparisons[k].old,
                                            comparisons[k].new, TRUE))) = 1

\* a run over three releases has ended with two comparisons, the second one
\* failed, and the reports of both written
C26_Witness ==
  /\ pc = "trend_done"
  /\ exit_code = 0
  /\ Len(releases) = 3
  /\ Len(comparisons) = 2
  /\ comparisons[2].diff_output = DiffuseError
  /\ WritesOf(ReportFile(releases[2], releases[3], TRUE)) # {}

\* ----------------------------------------------------------------------- C28
\* the steps of the run, in the order main takes them
StepOf(entry) ==
  CASE entry.text \in {"Diffuse built", "Failed to setup Diffuse:"} -> 1
    [] entry.text \in {"Loaded releases", "Failed to load releases:",
                       "Need at least 2 releases"} -> 2
    [] entry.text \in {"APK already downloaded:", "Downloaded:",
                       "Failed to download APK for"} -> 3
    [] entry.text \in {"Running Diffuse:", "Diffuse comparison completed",
                       "Diffuse failed:"} -> 4
    [] OTHER -> 5

\* a comparison has been started or a file written, or is about to be
Comparing ==
  \/ pc \in {"trend_compare", "trend_report"}
  \/ comparisons # <<>>
  \/ written # <<>>

\* C28: no comparison is started and no file written unless Diffuse was set
\* up, at least 2 releases were loaded and main holds the APK of every
\* release; a run that returns 1 has compared and written nothing; and the
\* steps are taken in the order build, load, download, compare, write.
C28_SetupBeforeComparing ==
  /\ Comparing =>
       /\ diffuse_bin # <<>>
       /\ Len(releases) >= 2
       /\ \A k \in 1..Len(releases) :
            releases[k] \in apk_paths /\ releases[k] \in work_dir
  /\ exit_code = 1 => (comparisons = <<>> /\ written = <<>> /\ pc = "trend_done")
  /\ pc = "trend_done" =>
       (exit_code = 0 <=> written # <<>>) /\ exit_code \in {0, 1}
  /\ written # <<>> => Len(comparisons) = Len(releases) - 1
  /\ \A a, b \in 1..Len(log) : a < b => StepOf(log[a]) <= StepOf(log[b])

\* a run has ended with status 1 at the download of its second release
C28_Witness ==
  /\ pc = "trend_done"
  /\ exit_code = 1
  /\ Len(releases) >= 2
  /\ i = 2
  /\ releases[1] \in apk_paths
  /\ releases[2] \notin apk_paths
  /\ comparisons = <<>>

\* ----------------------------------------------------------------------- C27
RECURSIVE CommitsIn(_)
CommitsIn(sessions) ==
  IF sessions = <<>> THEN 0 ELSE Head(sessions).commits + CommitsIn(Tail(sessions))

\* the place in the list of the first commit of session k
FirstCommitOf(sessions, k) == 1 + CommitsIn(SubSeq(sessions, 1, k - 1))

\* the gap before commit k is above the threshold
GapAbove(timestamps, k, threshold) ==
  ~LessEq(Hours(timestamps[k] - timestamps[k - 1]), threshold)

\* C27: the sessions returned for a non-empty sorted list of commit times
\* are its maximal runs of commits whose gaps are <= the threshold: session
\* after session takes the next commits of the list, runs from its first to
\* its last commit, has no gap above the threshold inside and one before its
\* first commit; there is one session more than gaps above the threshold,
\* the commit counts add up to the number of commits, each session ends
\* before the next starts, and each duration is end minus start, in hours and
\* not negative.  An empty list gives no sessions.
C27_SessionsAreMaximalRuns ==
  pc = "sessions_returned" =>
    LET ts == content.timestamps
        th == content.gap_threshold_hours
    IN /\ ts = <<>> => parsed = <<>>
       /\ ts # <<>> =>
            /\ CommitsIn(parsed) = Len(ts)
            /\ Len(parsed) = 1 + Cardinality({k \in 2..Len(ts) : GapAbove(ts, k, th)})
            /\ \A s \in 1..Len(parsed) :
                 LET first == FirstCommitOf(parsed, s)
                     last == first + parsed[s].commits - 1
                 IN /\ parsed[s].commits >= 1
                    /\ last <= Len(ts)
                    /\ parsed[s].start = ts[first]
                    /\ parsed[s].end = ts[last]
                    /\ \A k \in (first + 1)..last : ~GapAbove(ts, k, th)
                    /\ first > 1 => GapAbove(ts, first, th)
                    /\ parsed[s].duration = Hours(parsed[s].end - parsed[s].start)
                    /\ parsed[s].end >= parsed[s].start
                    /\ s < Len(parsed) => parsed[s].end < parsed[s + 1].start

\* two commits exactly one threshold apart are one session, a commit further
\* off is the next session
C27_Witness ==
  /\ pc = "sessions_returned"
  /\ content.timestamps = <<0, 2, 5>>
  /\ content.gap_threshold_hours = Hours(2)
  /\ Len(parsed) = 2
  /\ parsed[1].commits = 2
  /\ parsed[1].duration = Hours(2)
  /\ parsed[2].start = 5

====
